---- MODULE Spec2Model ----
(***************************************************************************)
(* VeloServe's PHP execution layer: the orchestrator (PhpPool, php/mod.rs) *)
(* with its counting semaphore and per-request interpreter processes, and  *)
(* the embedded runtime (PhpSapi, php/sapi.rs) with its dedicated thread,  *)
(* mailbox and capture hooks.                                              *)
(***************************************************************************)
EXTENDS Integers, Sequences, FiniteSets, TLC

(***************************************************************************)
(* Bounds of the model.                                                    *)
(***************************************************************************)
\* config.workers: the size of the semaphore (validated > 0 by Config::validate)
Workers == 2
\* tasks of the HTTP layer that call into the pool concurrently
NumCallers == 3
\* calls the tasks make in all
MaxCalls == 3
\* longest request body, in bytes
MaxBody == 2
\* bytes the child's stdin pipe takes before a writer blocks
PipeBuf == 1
\* capacity of the mailbox; mpsc::sync_channel(32) in the code, scaled down
MailboxCap == 1
\* distinct PhpSapi values a program creates
NumSapis == 2
\* threads calling PhpSapi directly
NumClients == 2
\* distinct script paths
NumScripts == 2

\* executions of the dedicated thread
MaxExecs == 2
\* hook calls during one execution
MaxHooks == 3
\* header hook calls in the study of the header hook alone
MaxHeaders == 3
\* vephp: connection threads, WorkerPool::max_workers, and the length at
\* which the pending queue is full (the 100 of WorkerPool::execute, scaled down)
NumConns == 2
MaxWorkers == 2
QueueLimit == 2

Callers == 1..NumCallers
Bodies == 0..MaxBody
Sapis == 1..NumSapis
Scripts == 1..NumScripts

Modes == {"Cgi", "Socket", "Embed"}

\* what a script writes to stdout or stderr: nothing, or ASCII 'A' followed
\* by the byte 0xFF, which no UTF-8 sequence contains
Outputs == {<<>>, <<65, 255>>}

VARIABLES
    config,          \* PhpConfig and build: enable, mode, php-embed feature
    pool,            \* PhpPool: available, running, semaphore, active_workers, embed_sapi
    pc,              \* where each task is inside its execute call
    call,            \* the arguments of each task's current call
    child,           \* the interpreter process of each task's current call
    seq,             \* calls made so far
    ret,             \* history: the call that returned in the last step, and what it returned
    once,            \* PHP_INIT_ONCE
    PHP_INITIALIZED, \* static AtomicBool
    PHP_INIT_ERROR,  \* static Mutex<Option<String>>: TRUE when Some
    mailbox,         \* the sync_channel behind PHP_WORKER_TX
    thread,          \* the dedicated php-embed-worker thread
    reply,           \* the one-shot reply channel of each task's current call
    sapi,            \* the PhpSapi values
    interp,          \* history: was the interpreter called from a thread other than the
                     \* dedicated one, and was it while the dedicated thread was inside it
    taken,           \* history: reply channels of the messages the thread received
    CAPTURE,         \* static EmbedCapture: body, headers, status, last_error
    SG,              \* sapi_globals.sapi_headers.http_response_code
    hooklog,         \* history: the hook calls of the current execution
    resp,            \* history: what the execution that ended in the last step returned
    execs,           \* executions started so far
    stale,           \* history: what the current execution found in CAPTURE at its start
    cgi,             \* the interpreter process of a request served in spawn mode, and its stdout
    http,            \* the HTTP response RequestHandler::execute_php built in the last step
    wpool,           \* vephp: the WorkerPool behind PhpWorkerServer's mutex, and the mutex
    conn,            \* vephp: the connection threads' position, request, process and response
    wire,            \* one message on its way through a stream: unsent bytes, bytes in flight, what was decoded
    applied,         \* the arguments and the result of the function applied in the last step
    cache,           \* the server's CacheManager: entries, LRU order, tag index, counters, and the clock
    REQUEST_CONTEXT, \* static OnceCell<ParkingMutex<RequestContext>>: body, cursor, cookie, server_vars
    request_body     \* the interpreter's request: the POST bytes it has read through read_post

\* what no operation of PhpPool and PhpSapi touches
handlerVars == <<cgi, http>>
workerVars == <<wpool, conn>>
requestVars == <<REQUEST_CONTEXT, request_body>>
storeVars == <<cache, requestVars>>
libVars == <<wire, applied, storeVars>>
fixed == <<config, handlerVars, workerVars, libVars>>
poolVars == <<fixed, pool>>
callVars == <<pc, call, child, seq>>
sapiGlobals == <<once, PHP_INITIALIZED, PHP_INIT_ERROR, mailbox, thread, sapi, interp, taken>>
captureVars == <<CAPTURE, SG, hooklog, resp, execs, stale>>
vars == <<config, pool, pc, call, child, seq, ret, once,
          PHP_INITIALIZED, PHP_INIT_ERROR, mailbox, thread, reply, sapi, interp, taken,
          CAPTURE, SG, hooklog, resp, execs, stale, handlerVars, workerVars, libVars>>

(***************************************************************************)
(* Values.                                                                 *)
(***************************************************************************)
\* kind: the entry point; script: the script path; ch: the call's reply
\* channel (0: none), one per call; sapi: the PhpSapi the call borrows
NoCall == [kind |-> "none", script |-> 1, ch |-> 0, sapi |-> 0]
\* st: none / running / exited; reads: the script consumes its stdin;
\* pending: body bytes not yet written to its stdin
NoChild == [st |-> "none", reads |-> FALSE, pending |-> 0]
NoMsg == [ch |-> 0, script |-> 1]
\* the exit status and output wait_with_output collected
NoExit == [st |-> "none", code |-> 0, stdout |-> <<>>, stderr |-> <<>>]

\* Result<_, _> of a call: the variant, the text or body it carries, and
\* (history) the reply channel of the request it was computed for
Res(tag, val) == [tag |-> tag, val |-> val, for |-> 0]
NoResult == Res("none", <<>>)
\* EmbedCapture::default(), what install_hooks puts into CAPTURE
DefaultCapture == [body |-> <<>>, headers |-> <<>>, status |-> 0, last_error |-> <<>>]
\* the Result of execute_script_on_thread: Ok(PhpResponse) or Err(text)
NoResp == [tag |-> "none", body |-> <<>>, headers |-> <<>>, status_code |-> 0, error |-> <<>>]

\* the interpreter process of a request in spawn mode: what it wrote to
\* stdout so far, its exit code, and (history) the header lines it wrote,
\* the line ending it uses and the body it wrote
NoCgi == [st |-> "running", stdout |-> <<>>, code |-> 0, lines |-> <<>>, eol |-> <<>>, body |-> <<>>]
\* no response built yet
NoHttp == [kind |-> "none", status |-> 0, headers |-> <<>>, body |-> <<>>]

\* vephp before PhpWorkerServer::new; lock is the connection thread that
\* holds the mutex around the pool, 0 when it is free
NoWorkerPool == [pc |-> "none", workers |-> <<>>, request_queue |-> <<>>, lock |-> 0]
NoRequest == [request_type |-> "none", script_path |-> 1, server_vars |-> {}]
NoProcess == [kind |-> "none", id |-> 0, script |-> 0, env |-> {}]
NoResponse == [success |-> FALSE, status_code |-> 0, body |-> "", error |-> "", stderr |-> "",
               queued |-> FALSE]
\* a connection thread whose connection was just accepted; reads and
\* writes count (history) the requests read from the connection and the
\* responses written to it
NoConn == [pc |-> "idle", request |-> NoRequest, worker |-> 0, child |-> NoProcess,
           response |-> NoResponse, reads |-> 0, writes |-> 0]

NoRet == [c |-> 0, kind |-> "none", script |-> 1, ch |-> 0, res |-> NoResult, exit |-> NoExit]

\* String::from_utf8_lossy on the model's bytes: ASCII is kept, 0xFF becomes U+FFFD
from_utf8_lossy(bytes) == [i \in DOMAIN bytes |-> IF bytes[i] < 128 THEN bytes[i] ELSE 65533]

\* the tail of do_execute_cgi / do_execute_with_body once the process has exited
SpawnOutcomeStrict(code, stdout, stderr) ==
    IF code # 0
    THEN Res("ScriptFailed", from_utf8_lossy(stderr))
    ELSE Res("Ok", from_utf8_lossy(stdout))

SpawnOutcome(code, stdout, stderr) ==
    IF code # 0 /\ stdout = <<>>
    THEN Res("ScriptFailed", from_utf8_lossy(stderr))
    ELSE Res("Ok", from_utf8_lossy(stdout))

\* the tail of do_execute_simple: the exit status is not looked at
SimpleOutcome(code, stdout, stderr) == Res("Ok", from_utf8_lossy(stdout))

\* Semaphore::acquire completes only when a permit is there
CanAcquireAlways(permits) == TRUE

CanAcquire(permits) == permits > 0

\* dropping the SemaphorePermit guard gives the permit back
ForgetPermit(permits) == permits

DropPermit(permits) == permits + 1

SpawnKinds == {"cgi", "with_body", "simple"}
PoolKinds == SpawnKinds \cup {"embed"}
\* a task holds a permit from the acquire to its return
Holding(c) == pc[c] \in {"spawn", "write", "wait", "lock", "send", "recv"} /\ call[c].kind \in PoolKinds
InFlight == {c \in Callers : Holding(c)}

(***************************************************************************)
(* PhpPool::new, and the state of the process before anything runs.        *)
(***************************************************************************)
NewPool == [pc |-> "new", available |-> FALSE, running |-> FALSE, permits |-> Workers,
            active_workers |-> 0, embed_sapi |-> FALSE, sapi_lock |-> 0]

\* st: none / live / dropped; ipc: where a call of initialize() on it is
\* (idle, sleep, blocked, check, and ok / err: about to return that)
NewSapi == [st |-> "none", initialized |-> FALSE, ipc |-> "idle"]

\* no message is under way
NoWire == [pc |-> "idle", msg |-> <<>>, out |-> <<>>, sock |-> <<>>, got |-> <<>>]
\* no function was applied
NoApplied == [f |-> "none"]

\* Option<CString>: no cookie header
NoCookie == [some |-> FALSE, text |-> <<>>]
\* RequestContext::default(), as install_hooks creates it
RequestContext_default == [body |-> <<>>, cursor |-> 0, cookie |-> NoCookie, server_vars |-> {}]

\* the cache's keys and tags, its memory limit in bytes, the default time
\* to live and the clock's range in seconds
CacheKeys == {"k1", "k2"}
CacheTags == {"a", "b"}
MaxMemory == 3
DefaultTtl == 1
MaxTime == 2
\* no entry under a key of memory_cache
NoEntry == [stored |-> FALSE, data |-> <<>>, tags |-> <<>>, created_at |-> 0, ttl |-> 0]
\* CacheManager::new; hits, misses and evictions are only counted
CacheManager_new(enable) ==
    [enable |-> enable,
     memory_cache |-> [k \in CacheKeys |-> NoEntry],
     lru |-> <<>>,
     tag_index |-> [t \in CacheTags |-> <<>>],
     size_bytes |-> 0,
     max_memory |-> MaxMemory,
     now |-> 0]

\* the process with PHP_INIT_ONCE, PHP_INITIALIZED and the dedicated thread as given
InitProcessAnd(o, initialized, tpc, manager) ==
    /\ pc = [c \in Callers |-> "idle"]
    /\ call = [c \in Callers |-> NoCall]
    /\ child = [c \in Callers |-> NoChild]
    /\ seq = 0
    /\ ret = NoRet
    /\ once = o
    /\ PHP_INITIALIZED = initialized
    /\ PHP_INIT_ERROR = FALSE
    /\ mailbox = <<>>
    /\ thread = [pc |-> tpc, cur |-> NoMsg]
    /\ reply = [c \in Callers |-> NoResult]
    /\ sapi = [s \in Sapis |-> NewSapi]
    /\ interp = [foreign |-> FALSE, overlap |-> FALSE]
    /\ taken = {}
    /\ cgi = NoCgi
    /\ http = NoHttp
    /\ wpool = NoWorkerPool
    /\ conn = [t \in 1..NumConns |-> NoConn]
    /\ wire = NoWire
    /\ applied = NoApplied
    /\ cache = manager
    /\ REQUEST_CONTEXT = RequestContext_default
    /\ request_body = <<>>

\* the process of a server whose cache is enabled
InitProcess(o, initialized, tpc) == InitProcessAnd(o, initialized, tpc, CacheManager_new(TRUE))

InitCommon ==
    /\ InitProcess("new", FALSE, "none")
    /\ CAPTURE = DefaultCapture
    /\ SG = 0
    /\ hooklog = <<>>
    /\ resp = NoResp
    /\ execs = 0
    /\ stale = DefaultCapture

Init ==
    /\ config \in [enable : BOOLEAN, mode : Modes, feature : BOOLEAN]
    /\ pool = NewPool
    /\ InitCommon

\* a step in which no call returns and no execution touches the capture
Quiet == ret' = NoRet /\ UNCHANGED captureVars

(***************************************************************************)
(* PhpSapi::initialize and the start of the dedicated thread.              *)
(***************************************************************************)
\* entering initialize(): PHP_INIT_ONCE.call_once creates the mailbox, spawns
\* the thread and sleeps 100 ms; a second caller blocks until the first
\* closure has returned; a later caller skips it
InitializeEnter(s) ==
    /\ sapi[s].ipc = "idle"
    /\ CASE once = "new" ->
              /\ once' = "running"
              /\ thread' = [thread EXCEPT !.pc = "init"]
              /\ sapi' = [sapi EXCEPT ![s].st = "live", ![s].ipc = "sleep"]
         [] once = "running" ->
              /\ sapi' = [sapi EXCEPT ![s].st = "live", ![s].ipc = "blocked"]
              /\ UNCHANGED <<once, thread>>
         [] once = "done" ->
              /\ sapi' = [sapi EXCEPT ![s].st = "live", ![s].ipc = "check"]
              /\ UNCHANGED <<once, thread>>
    /\ UNCHANGED <<PHP_INITIALIZED, PHP_INIT_ERROR, mailbox, interp, taken>>

\* the 100 ms sleep inside call_once is over
initialize_wake(s) ==
    /\ sapi[s].ipc = "sleep"
    /\ once' = "done"
    /\ sapi' = [sapi EXCEPT ![s].ipc = "check"]
    /\ Quiet
    /\ UNCHANGED <<poolVars, callVars, reply, PHP_INITIALIZED, PHP_INIT_ERROR, mailbox, thread, interp, taken>>

\* the check after call_once left out: initialize() returns Ok in any case
initialize_unchecked(s) ==
    /\ sapi[s].ipc = "check"
    /\ sapi' = [sapi EXCEPT ![s].ipc = "ok", ![s].initialized = TRUE]
    /\ Quiet
    /\ UNCHANGED <<poolVars, callVars, reply, once, PHP_INITIALIZED, PHP_INIT_ERROR, mailbox, thread, interp, taken>>

\* the check after call_once: Ok exactly when PHP_INITIALIZED is already set
initialize_check(s) ==
    /\ sapi[s].ipc = "check"
    /\ sapi' = [sapi EXCEPT ![s].ipc = IF PHP_INITIALIZED THEN "ok" ELSE "err",
                            ![s].initialized = @ \/ PHP_INITIALIZED]
    /\ Quiet
    /\ UNCHANGED <<poolVars, callVars, reply, once, PHP_INITIALIZED, PHP_INIT_ERROR, mailbox, thread, interp, taken>>

\* run_php_worker up to its loop: php_embed_init on the new thread
thread_init(ok) ==
    /\ thread.pc = "init"
    /\ IF ok
       THEN /\ PHP_INITIALIZED' = TRUE
            /\ thread' = [thread EXCEPT !.pc = "recv"]
            /\ UNCHANGED PHP_INIT_ERROR
       ELSE /\ PHP_INIT_ERROR' = TRUE
            /\ thread' = [thread EXCEPT !.pc = "exited"]
            /\ UNCHANGED PHP_INITIALIZED
    /\ Quiet
    /\ UNCHANGED <<poolVars, callVars, reply, once, mailbox, sapi, interp, taken>>

(***************************************************************************)
(* PhpPool::start.                                                         *)
(***************************************************************************)
StartedRunning(av, run) == [pool EXCEPT !.pc = "started", !.available = av, !.running = TRUE]

Started(av, run) == [pool EXCEPT !.pc = "started", !.available = av, !.running = run]

start_disabled ==
    /\ pool.pc = "new" /\ ~config.enable
    /\ pool' = Started(FALSE, pool.running)
    /\ Quiet
    /\ UNCHANGED <<fixed, callVars, reply, sapiGlobals>>

\* Cgi: the binary must exist (or be the bare name php / php-cgi) and `-v` must work
start_cgi(exists, probe) ==
    /\ pool.pc = "new" /\ config.enable /\ config.mode = "Cgi"
    /\ pool' = IF exists /\ probe THEN Started(TRUE, TRUE) ELSE Started(FALSE, pool.running)
    /\ Quiet
    /\ UNCHANGED <<fixed, callVars, reply, sapiGlobals>>

\* Socket: only the existence of the socket path is looked at
start_socket(exists) ==
    /\ pool.pc = "new" /\ config.enable /\ config.mode = "Socket"
    /\ pool' = IF exists THEN Started(TRUE, TRUE) ELSE Started(FALSE, pool.running)
    /\ Quiet
    /\ UNCHANGED <<fixed, callVars, reply, sapiGlobals>>

\* Embed without the php-embed feature
start_embed_missing ==
    /\ pool.pc = "new" /\ config.enable /\ config.mode = "Embed" /\ ~config.feature
    /\ pool' = Started(FALSE, pool.running)
    /\ Quiet
    /\ UNCHANGED <<fixed, callVars, reply, sapiGlobals>>

\* Embed: PhpSapi::new() and the call of initialize
start_embed_begin ==
    /\ pool.pc = "new" /\ config.enable /\ config.mode = "Embed" /\ config.feature
    /\ InitializeEnter(1)
    /\ pool' = [pool EXCEPT !.pc = "starting"]
    /\ Quiet
    /\ UNCHANGED <<fixed, callVars, reply>>

\* Embed: initialize has returned; on Err the local PhpSapi is dropped
\* (its Drop does nothing: it never became initialized)
start_embed_end ==
    /\ pool.pc = "starting" /\ sapi[1].ipc \in {"ok", "err"}
    /\ IF sapi[1].ipc = "ok"
       THEN /\ pool' = [Started(TRUE, TRUE) EXCEPT !.embed_sapi = TRUE]
            /\ sapi' = [sapi EXCEPT ![1].ipc = "idle"]
       ELSE /\ pool' = Started(FALSE, pool.running)
            /\ sapi' = [sapi EXCEPT ![1].ipc = "idle", ![1].st = "dropped"]
    /\ Quiet
    /\ UNCHANGED <<fixed, callVars, reply, once, PHP_INITIALIZED, PHP_INIT_ERROR, mailbox, thread, interp, taken>>

start ==
    \/ start_disabled
    \/ \E exists \in BOOLEAN, probe \in BOOLEAN : start_cgi(exists, probe)
    \/ \E exists \in BOOLEAN : start_socket(exists)
    \/ start_embed_missing
    \/ start_embed_begin
    \/ start_embed_end

(***************************************************************************)
(* The execute calls of PhpPool.                                           *)
(***************************************************************************)
\* what the last step's return looked like to its caller
Returned(c, res, exit) ==
    [c |-> c, kind |-> call[c].kind, script |-> call[c].script, ch |-> call[c].ch,
     res |-> res, exit |-> exit]

\* a task enters an execute call: `err` is the error the entry checks
\* return at once, or "" when the call goes on to the semaphore
BeginCall(c, kind, script, err) ==
    /\ pool.pc = "started"
    /\ pc[c] = "idle"
    /\ seq < MaxCalls
    /\ seq' = seq + 1
    /\ child' = [child EXCEPT ![c] = NoChild]
    /\ reply' = [reply EXCEPT ![c] = NoResult]
    /\ IF err = ""
       THEN /\ call' = [call EXCEPT ![c] = [kind |-> kind, script |-> script, ch |-> seq + 1,
                                            sapi |-> IF kind = "embed" THEN 1 ELSE 0]]
            /\ pc' = [pc EXCEPT ![c] = "acquire"]
            /\ Quiet
       ELSE /\ ret' = [NoRet EXCEPT !.c = c, !.kind = kind, !.res = Res(err, <<>>)]
            /\ UNCHANGED <<call, pc, captureVars>>
    /\ UNCHANGED <<poolVars, sapiGlobals>>

execute_cgi(c) ==
    BeginCall(c, "cgi", 1,
              IF ~pool.available THEN "NotAvailable"
              ELSE IF config.mode # "Cgi" /\ config.mode # "Socket" THEN "NotCgiMode"
              ELSE "")

\* no check of the mode here
execute_with_body(c) ==
    BeginCall(c, "with_body", 1, IF ~pool.available THEN "NotAvailable" ELSE "")

execute_simple(c) ==
    BeginCall(c, "simple", 1,
              IF ~pool.available THEN "NotAvailable"
              ELSE IF config.mode # "Cgi" /\ config.mode # "Socket" THEN "NotCgiMode"
              ELSE "")

\* the mode is checked before the availability
execute_embed(c, script) ==
    BeginCall(c, "embed", script,
              IF config.mode # "Embed" THEN "NotEmbedMode"
              ELSE IF ~pool.available THEN "NotAvailable"
              ELSE IF ~config.feature THEN "NotCompiled"
              ELSE "")

\* semaphore.acquire().await completes; the spawn paths then count the
\* call in active_workers, execute_embed does not
acquire(c) ==
    /\ pc[c] = "acquire"
    /\ call[c].kind \in PoolKinds
    /\ CanAcquire(pool.permits)
    /\ pool' = [pool EXCEPT !.permits = @ - 1,
                            !.active_workers = IF call[c].kind \in SpawnKinds THEN @ + 1 ELSE @]
    /\ pc' = [pc EXCEPT ![c] = IF call[c].kind \in SpawnKinds THEN "spawn" ELSE "lock"]
    /\ Quiet
    /\ UNCHANGED <<fixed, call, child, seq, reply, sapiGlobals>>

\* a call returns `res`: the permit guard is dropped; the spawn paths
\* decrement active_workers, execute_embed unlocks embed_sapi
Return(c, res, exit) ==
    /\ pc' = [pc EXCEPT ![c] = "idle"]
    /\ call' = [call EXCEPT ![c] = NoCall]
    /\ ret' = Returned(c, res, exit)
    /\ UNCHANGED captureVars
    /\ pool' = IF call[c].kind \in SpawnKinds
               THEN [pool EXCEPT !.permits = DropPermit(@), !.active_workers = @ - 1]
               ELSE IF call[c].kind = "embed"
               THEN [pool EXCEPT !.permits = DropPermit(@),
                                 !.sapi_lock = IF @ = c THEN 0 ELSE @]
               ELSE pool

\* cmd.spawn(), with the request body of the call still to be written;
\* with an empty body stdin is closed at once
spawn(c, ok, reads, body) ==
    /\ pc[c] = "spawn"
    /\ call[c].kind = "simple" => body = 0
    /\ IF ok
       THEN /\ child' = [child EXCEPT ![c] = [st |-> "running", reads |-> reads /\ body > 0,
                                              pending |-> body]]
            /\ pc' = [pc EXCEPT ![c] = IF body = 0 THEN "wait" ELSE "write"]
            /\ Quiet
            /\ UNCHANGED <<pool, call>>
       ELSE /\ reads = FALSE /\ body = 0
            /\ Return(c, Res(IF call[c].kind = "simple" THEN "ExecFailed" ELSE "SpawnFailed", <<>>), NoExit)
            /\ UNCHANGED child
    /\ UNCHANGED <<fixed, seq, reply, sapiGlobals>>

\* stdin.write_all(body).await completes: the body fits the pipe or the child reads it.
\* No deadline covers this await.
write_done(c) ==
    /\ pc[c] = "write"
    /\ child[c].st = "running"
    /\ child[c].pending <= PipeBuf \/ child[c].reads
    /\ pc' = [pc EXCEPT ![c] = "wait"]
    /\ child' = [child EXCEPT ![c] = [@ EXCEPT !.pending = 0, !.reads = FALSE]]
    /\ Quiet
    /\ UNCHANGED <<poolVars, call, seq, reply, sapiGlobals>>

\* stdin.write_all(body).await fails: the child is gone
write_fail(c) ==
    /\ pc[c] = "write"
    /\ child[c].st = "exited"
    /\ Return(c, Res("BodyWriteFailed", <<>>), NoExit)
    /\ child' = [child EXCEPT ![c] = NoChild]
    /\ UNCHANGED <<fixed, seq, reply, sapiGlobals>>

\* timeout(max_execution_time, child.wait_with_output()) yields the output:
\* the process has ended with some status and output
wait_output(c, code, out, err) ==
    /\ pc[c] = "wait"
    /\ child[c].st = "running"
    /\ Return(c, IF call[c].kind = "simple"
                 THEN SimpleOutcome(code, out, err)
                 ELSE SpawnOutcome(code, out, err),
              [st |-> "exited", code |-> code, stdout |-> out, stderr |-> err])
    /\ child' = [child EXCEPT ![c] = NoChild]
    /\ UNCHANGED <<fixed, seq, reply, sapiGlobals>>

\* ... or an I/O error of the wait
wait_failed(c) ==
    /\ pc[c] = "wait"
    /\ Return(c, Res(IF call[c].kind = "simple" THEN "ExecFailed" ELSE "WaitFailed", <<>>), NoExit)
    /\ UNCHANGED <<fixed, child, seq, reply, sapiGlobals>>

\* ... or the deadline passes first: the future is dropped, and with it the
\* Child handle; nothing sets kill_on_drop and nothing calls kill, so the
\* process is left as it is
timeout(c) ==
    /\ pc[c] = "wait"
    /\ child[c].st = "running"
    /\ Return(c, Res("Timeout", <<>>), NoExit)
    /\ UNCHANGED <<fixed, child, seq, reply, sapiGlobals>>

\* an interpreter process nobody waits for ends by itself
child_exit(c) ==
    /\ child[c].st = "running"
    /\ pc[c] # "wait"
    /\ child' = [child EXCEPT ![c] = IF pc[c] = "write"
                                     THEN [@ EXCEPT !.st = "exited", !.reads = FALSE, !.pending = 0]
                                     ELSE NoChild]
    /\ Quiet
    /\ UNCHANGED <<poolVars, pc, call, seq, reply, sapiGlobals>>

(***************************************************************************)
(* PhpSapi::execute_script and the dedicated thread's loop.                *)
(***************************************************************************)
\* execute_embed after the permit: embed_sapi.lock(), then the entry checks
\* of execute_script on the pool's PhpSapi
lock_sapi(c) ==
    /\ pc[c] = "lock"
    /\ pool.sapi_lock = 0
    /\ IF ~pool.embed_sapi
       THEN /\ Return(c, Res("EmbedNotInitialized", <<>>), NoExit)
       ELSE IF ~sapi[1].initialized \/ once = "new"
       THEN /\ Return(c, Res("SapiNotInitialized", <<>>), NoExit)
       ELSE /\ pool' = [pool EXCEPT !.sapi_lock = c]
            /\ pc' = [pc EXCEPT ![c] = "send"]
            /\ Quiet
            /\ UNCHANGED call
    /\ UNCHANGED <<fixed, child, seq, reply, sapiGlobals>>

\* the mailbox message of a call: its own reply channel travels with it
Request(c) == [ch |-> call[c].ch, script |-> call[c].script]

\* tx.send(request): blocks while the mailbox is full, with no deadline;
\* fails when the receiving thread is gone
sapi_send(c) ==
    /\ pc[c] = "send"
    /\ IF thread.pc = "exited"
       THEN /\ Return(c, Res("SendFailed", <<>>), NoExit)
            /\ UNCHANGED mailbox
       ELSE /\ Len(mailbox) < MailboxCap
            /\ mailbox' = Append(mailbox, Request(c))
            /\ pc' = [pc EXCEPT ![c] = "recv"]
            /\ Quiet
            /\ UNCHANGED <<pool, call>>
    /\ UNCHANGED <<fixed, child, seq, reply, once, PHP_INITIALIZED,
                   PHP_INIT_ERROR, thread, sapi, interp, taken>>

\* response_rx.recv_timeout(300 s) yields the thread's reply
sapi_recv(c) ==
    /\ pc[c] = "recv"
    /\ reply[c] # NoResult
    /\ Return(c, reply[c], NoExit)
    /\ reply' = [reply EXCEPT ![c] = NoResult]
    /\ UNCHANGED <<fixed, child, seq, sapiGlobals>>

\* ... or the 300 s pass first; the receiver is dropped
sapi_timeout(c) ==
    /\ pc[c] = "recv"
    /\ reply[c] = NoResult
    /\ Return(c, Res("SapiTimeout", <<>>), NoExit)
    /\ UNCHANGED <<fixed, child, seq, reply, sapiGlobals>>

\* rx.recv() in run_php_worker takes the oldest message out of the mailbox
AfterRecv(mb) == Tail(mb)

thread_recv ==
    /\ thread.pc = "recv"
    /\ mailbox # <<>>
    /\ thread' = [pc |-> "exec", cur |-> Head(mailbox)]
    /\ mailbox' = AfterRecv(mailbox)
    /\ taken' = taken \cup {Head(mailbox).ch}
    /\ Quiet
    /\ UNCHANGED <<poolVars, callVars, reply, once, PHP_INITIALIZED, PHP_INIT_ERROR, sapi, interp>>

\* what execute_script_on_thread returns for a message, as far as the
\* caller can tell requests apart: the script it named
ExecResult(msg, ok) ==
    [tag |-> IF ok THEN "Ok" ELSE "ScriptFailed", val |-> <<msg.script>>, for |-> msg.ch]

\* the task whose call waits on the receiving end of channel ch, if any
Listener(ch) == {c \in Callers : call[c].ch = ch /\ pc[c] = "recv"}

\* req.response_tx.send(result) goes to the channel the message carried
AnyListener(msg) == {c \in Callers : pc[c] = "recv"}

ReplyTo(msg) == Listener(msg.ch)

\* where the loop goes after the send: `let _ =` ignores a failed send;
\* unwrapping it would end the thread when the receiver is gone
AfterReplyUnwrapped(msg) == IF Listener(msg.ch) = {} THEN "exited" ELSE "recv"

AfterReply(msg) == "recv"

\* execute_script_on_thread returns and the loop replies; a reply whose
\* receiver is gone is thrown away (`let _ =`)
thread_finish(ok) ==
    /\ thread.pc = "exec"
    /\ reply' = [c \in Callers |-> IF c \in ReplyTo(thread.cur)
                                   THEN ExecResult(thread.cur, ok) ELSE reply[c]]
    /\ thread' = [pc |-> AfterReply(thread.cur), cur |-> NoMsg]
    /\ Quiet
    /\ UNCHANGED <<poolVars, callVars, once, PHP_INITIALIZED, PHP_INIT_ERROR, mailbox, sapi, interp, taken>>

(***************************************************************************)
(* The orchestrator with its strategies.                                   *)
(***************************************************************************)
Next ==
    \/ start
    \/ initialize_wake(1)
    \/ initialize_check(1)
    \/ \E ok \in BOOLEAN : thread_init(ok)
    \/ \E c \in Callers : execute_cgi(c)
    \/ \E c \in Callers : execute_with_body(c)
    \/ \E c \in Callers : execute_simple(c)
    \/ \E c \in Callers, script \in Scripts : execute_embed(c, script)
    \/ \E c \in Callers : acquire(c)
    \/ \E c \in Callers, ok \in BOOLEAN, reads \in BOOLEAN, body \in Bodies : spawn(c, ok, reads, body)
    \/ \E c \in Callers : write_done(c)
    \/ \E c \in Callers : write_fail(c)
    \/ \E c \in Callers, code \in {0, 1}, out \in Outputs, err \in Outputs : wait_output(c, code, out, err)
    \/ \E c \in Callers : wait_failed(c)
    \/ \E c \in Callers : timeout(c)
    \/ \E c \in Callers : child_exit(c)
    \/ \E c \in Callers : lock_sapi(c)
    \/ \E c \in Callers : sapi_send(c)
    \/ \E c \in Callers : sapi_recv(c)
    \/ \E c \in Callers : sapi_timeout(c)
    \/ thread_recv
    \/ \E ok \in BOOLEAN : thread_finish(ok)

Spec == Init /\ [][Next]_vars

(***************************************************************************)
(* The PhpSapi operations, called directly by any thread of the process.   *)
(***************************************************************************)
\* the threads that use PhpSapi values directly
Clients == 1..NumClients

InitSapi ==
    /\ config = [enable |-> TRUE, mode |-> "Embed", feature |-> TRUE]
    /\ pool = NewPool
    /\ InitCommon

\* no call borrows the PhpSapi s (what `&mut self` and a move need)
Unborrowed(s) ==
    /\ sapi[s].st = "live" /\ sapi[s].ipc = "idle"
    /\ \A c \in Callers : call[c].sapi # s

\* PhpSapi::new()
sapi_new(s) ==
    /\ sapi[s].st = "none"
    /\ sapi' = [sapi EXCEPT ![s].st = "live"]
    /\ Quiet
    /\ UNCHANGED <<poolVars, callVars, reply, once, PHP_INITIALIZED, PHP_INIT_ERROR,
                   mailbox, thread, interp, taken>>

sapi_initialize(s) ==
    /\ Unborrowed(s)
    /\ InitializeEnter(s)
    /\ Quiet
    /\ UNCHANGED <<poolVars, callVars, reply>>

\* call_once returns to a caller that waited for the first one's closure
initialize_unblock(s) ==
    /\ sapi[s].ipc = "blocked"
    /\ once = "done"
    /\ sapi' = [sapi EXCEPT ![s].ipc = "check"]
    /\ Quiet
    /\ UNCHANGED <<poolVars, callVars, reply, once, PHP_INITIALIZED, PHP_INIT_ERROR,
                   mailbox, thread, interp, taken>>

\* initialize() returns Ok or Err to its caller
initialize_return(s) ==
    /\ sapi[s].ipc \in {"ok", "err"}
    /\ sapi' = [sapi EXCEPT ![s].ipc = "idle"]
    /\ Quiet
    /\ UNCHANGED <<poolVars, callVars, reply, once, PHP_INITIALIZED, PHP_INIT_ERROR,
                   mailbox, thread, interp, taken>>

\* PhpSapi::execute_script up to the send
sapi_execute(c, s, script) ==
    /\ pc[c] = "idle"
    /\ sapi[s].st = "live" /\ sapi[s].ipc = "idle"
    /\ seq < MaxCalls
    /\ seq' = seq + 1
    /\ reply' = [reply EXCEPT ![c] = NoResult]
    /\ IF ~sapi[s].initialized \/ once = "new"
       THEN /\ ret' = [NoRet EXCEPT !.c = c, !.kind = "sapi", !.script = script,
                                    !.res = Res(IF ~sapi[s].initialized THEN "SapiNotInitialized"
                                                ELSE "WorkerNotStarted", <<>>)]
            /\ UNCHANGED <<call, pc, captureVars>>
       ELSE /\ call' = [call EXCEPT ![c] = [kind |-> "sapi", script |-> script, ch |-> seq + 1, sapi |-> s]]
            /\ pc' = [pc EXCEPT ![c] = "send"]
            /\ Quiet
    /\ UNCHANGED <<poolVars, child, sapiGlobals>>

\* a call into the interpreter made by the calling thread itself
CalledHere == [foreign |-> TRUE, overlap |-> interp.overlap \/ thread.pc \in {"init", "exec"}]

\* PhpSapi::eval_string: php_output_start_default, zend_eval_string and
\* php_output_end are called where eval_string is called; what it returns
\* (an empty string or "PHP eval failed") is not kept
eval_string(c, s) ==
    /\ pc[c] = "idle"
    /\ sapi[s].st = "live" /\ sapi[s].ipc = "idle"
    /\ interp' = IF sapi[s].initialized THEN CalledHere ELSE interp
    /\ Quiet
    /\ UNCHANGED <<poolVars, callVars, reply, once, PHP_INITIALIZED, PHP_INIT_ERROR,
                   mailbox, thread, sapi, taken>>

\* Drop for PhpSapi: php_embed_shutdown() is called where the value is dropped
drop_sapi(s) ==
    /\ Unborrowed(s)
    /\ sapi' = [sapi EXCEPT ![s].st = "dropped"]
    /\ IF sapi[s].initialized /\ PHP_INITIALIZED
       THEN /\ interp' = CalledHere
            /\ PHP_INITIALIZED' = FALSE
       ELSE UNCHANGED <<interp, PHP_INITIALIZED>>
    /\ Quiet
    /\ UNCHANGED <<poolVars, callVars, reply, once, PHP_INIT_ERROR, mailbox, thread, taken>>

NextSapi ==
    \/ \E s \in Sapis : sapi_new(s)
    \/ \E s \in Sapis : sapi_initialize(s)
    \/ \E s \in Sapis : initialize_wake(s)
    \/ \E s \in Sapis : initialize_unblock(s)
    \/ \E s \in Sapis : initialize_check(s)
    \/ \E s \in Sapis : initialize_return(s)
    \/ \E ok \in BOOLEAN : thread_init(ok)
    \/ \E c \in Clients, s \in Sapis, script \in Scripts : sapi_execute(c, s, script)
    \/ \E c \in Clients : sapi_send(c)
    \/ \E c \in Clients : sapi_recv(c)
    \/ \E c \in Clients : sapi_timeout(c)
    \/ thread_recv
    \/ \E ok \in BOOLEAN : thread_finish(ok)
    \/ \E c \in Clients, s \in Sapis : eval_string(c, s)
    \/ \E s \in Sapis : drop_sapi(s)

SpecSapi == InitSapi /\ [][NextSapi]_vars

(***************************************************************************)
(* Text, as sequences of characters, and the std functions the hooks use.  *)
(***************************************************************************)
UpperCase == <<"A", "B", "C", "D", "E", "F", "G", "H", "I", "J", "K", "L", "M",
               "N", "O", "P", "Q", "R", "S", "T", "U", "V", "W", "X", "Y", "Z">>
LowerCase == <<"a", "b", "c", "d", "e", "f", "g", "h", "i", "j", "k", "l", "m",
               "n", "o", "p", "q", "r", "s", "t", "u", "v", "w", "x", "y", "z">>
DigitChars == <<"0", "1", "2", "3", "4", "5", "6", "7", "8", "9">>
\* char::is_whitespace, on the characters the model writes
Whitespace == {" ", "\t", "\r", "\n"}

\* str::to_lowercase
to_lowercase(str) ==
    [i \in DOMAIN str |->
        IF \E k \in DOMAIN UpperCase : UpperCase[k] = str[i]
        THEN LowerCase[CHOOSE k \in DOMAIN UpperCase : UpperCase[k] = str[i]]
        ELSE str[i]]

RECURSIVE trim_start(_, _)
trim_start(str, set) ==
    IF str # <<>> /\ Head(str) \in set THEN trim_start(Tail(str), set) ELSE str

RECURSIVE trim_end(_, _)
trim_end(str, set) ==
    IF str # <<>> /\ str[Len(str)] \in set THEN trim_end(SubSeq(str, 1, Len(str) - 1), set) ELSE str

\* str::trim_matches(set) and, with Whitespace, str::trim
trim_matches(str, set) == trim_end(trim_start(str, set), set)

\* str::strip_prefix(p).is_some()
starts_with(str, p) == Len(str) >= Len(p) /\ SubSeq(str, 1, Len(p)) = p

\* the index of the first ':' of str, 0 when it has none (str::split_once(':'))
FirstColon(str) ==
    IF \E i \in DOMAIN str : str[i] = ":"
    THEN CHOOSE i \in DOMAIN str : str[i] = ":" /\ \A j \in 1..(i - 1) : str[j] # ":"
    ELSE 0

\* str::split_whitespace().next() on a string without leading whitespace
RECURSIVE first_token(_)
first_token(str) ==
    IF str = <<>> \/ Head(str) \in Whitespace THEN <<>> ELSE <<Head(str)>> \o first_token(Tail(str))

IsDigit(ch) == \E k \in DOMAIN DigitChars : DigitChars[k] = ch
DigitValue(ch) == (CHOOSE k \in DOMAIN DigitChars : DigitChars[k] = ch) - 1

RECURSIVE Decimal(_)
Decimal(str) == IF str = <<>> THEN 0 ELSE 10 * Decimal(SubSeq(str, 1, Len(str) - 1)) + DigitValue(str[Len(str)])

\* str::parse::<u16>() on unsigned decimal text: the number, or -1 for Err
\* (not a digit, empty, more than 65535)
parse_u16(str) ==
    IF str # <<>> /\ (\A i \in DOMAIN str : IsDigit(str[i])) /\ Decimal(str) <= 65535
    THEN Decimal(str)
    ELSE -1

(***************************************************************************)
(* The capture hooks the interpreter calls during an execution.            *)
(***************************************************************************)
StatusPrefixUpper == <<"S", "t", "a", "t", "u", "s", ":">>
StatusPrefixLower == <<"s", "t", "a", "t", "u", "s", ":">>
SetCookieLower == <<"s", "e", "t", "-", "c", "o", "o", "k", "i", "e">>

\* ub_write_hook: the bytes are appended to the captured body
ub_write_hook(cap, bytes) == [cap EXCEPT !.body = @ \o bytes]

\* the headers `retain` keeps on a REPLACE of the name whose lower case is name_lower
RetainedNoCookieRule(h, name_lower) == to_lowercase(h[1]) # name_lower

Retained(h, name_lower) == name_lower = SetCookieLower \/ to_lowercase(h[1]) # name_lower

\* header_handler_hook for the operations ADD and REPLACE on the raw line
header_handler_hook(cap, op, line) ==
    LET trimmed == trim_matches(line, {"\r", "\n"}) IN
    IF starts_with(trimmed, StatusPrefixUpper) \/ starts_with(trimmed, StatusPrefixLower)
    THEN LET rest == SubSeq(trimmed, Len(StatusPrefixUpper) + 1, Len(trimmed))
             code == parse_u16(first_token(trim_matches(rest, Whitespace)))
         IN  IF code >= 0 THEN [cap EXCEPT !.status = code] ELSE cap
    ELSE IF FirstColon(trimmed) > 0
    THEN LET k == FirstColon(trimmed)
             header_name == trim_matches(SubSeq(trimmed, 1, k - 1), Whitespace)
             header_value == trim_matches(SubSeq(trimmed, k + 1, Len(trimmed)), Whitespace)
             name_lower == to_lowercase(header_name)
             kept == IF op = "REPLACE"
                     THEN SelectSeq(cap.headers, LAMBDA h : Retained(h, name_lower))
                     ELSE cap.headers
         IN  [cap EXCEPT !.headers = Append(kept, <<header_name, header_value>>)]
    ELSE cap

\* send_headers_hook with the native response code
send_headers_hook(cap, code) == IF code > 0 THEN [cap EXCEPT !.status = code % 65536] ELSE cap

\* log_message_hook: the message becomes the last error
log_message_hook(cap, msg) == [cap EXCEPT !.last_error = <<msg>>]

\* the reset at the start of execute_script_on_thread
ResetCaptureKeepError(cap) == [cap EXCEPT !.body = <<>>, !.headers = <<>>, !.status = 200]

ResetCapture(cap) == [body |-> <<>>, headers |-> <<>>, status |-> 200, last_error |-> <<>>]

\* the raw line the interpreter hands to the header hook for a header
\* written by the script with this name and value, in one of two spellings
HeaderLine(name, value, fmt) ==
    IF fmt = 1
    THEN name \o <<":", " ">> \o value
    ELSE name \o <<":">> \o value \o <<" ", "\r", "\n">>

\* one hook call, or native call of the script, as the history keeps it
Event(hook, op, name, value, fmt, data) ==
    [hook |-> hook, op |-> op, name |-> name, value |-> value, fmt |-> fmt, data |-> data]

\* what a logged call does to the capture
ApplyHook(cap, ev) ==
    CASE ev.hook = "header" -> header_handler_hook(cap, ev.op, HeaderLine(ev.name, ev.value, ev.fmt))
      [] ev.hook = "ub_write" -> ub_write_hook(cap, ev.data)
      [] ev.hook = "send_headers" -> send_headers_hook(cap, ev.data[1])
      [] ev.hook = "log_message" -> log_message_hook(cap, ev.data[1])
      [] OTHER -> cap

(***************************************************************************)
(* execute_script_on_thread, step by step, on the dedicated thread.        *)
(***************************************************************************)
\* the thread, initialized, waits in its loop; php_embed_init may have
\* logged a diagnostic through the hooks installed before it
InitCapture ==
    /\ config = [enable |-> TRUE, mode |-> "Embed", feature |-> TRUE]
    /\ pool = NewPool
    /\ InitProcess("done", TRUE, "recv")
    /\ CAPTURE \in {DefaultCapture, log_message_hook(DefaultCapture, 1)}
    /\ SG = 0
    /\ hooklog = <<>>
    /\ resp = NoResp
    /\ execs = 0
    /\ stale = DefaultCapture

Failed(tag) == [NoResp EXCEPT !.tag = tag]

\* the loop has a request: the script path is made a CString (an Err
\* return when it holds a NUL), then the capture is reset and
\* php_request_startup is called
exec_begin(pathok) ==
    /\ thread.pc = "recv"
    /\ execs < MaxExecs
    /\ execs' = execs + 1
    /\ IF pathok
       THEN /\ CAPTURE' = ResetCapture(CAPTURE)
            /\ stale' = CAPTURE
            /\ hooklog' = <<>>
            /\ thread' = [thread EXCEPT !.pc = "startup"]
            /\ resp' = NoResp
       ELSE /\ resp' = Failed("InvalidPath")
            /\ UNCHANGED <<CAPTURE, stale, hooklog, thread>>
    /\ UNCHANGED <<poolVars, callVars, ret, reply, SG, once, PHP_INITIALIZED, PHP_INIT_ERROR,
                   mailbox, sapi, interp, taken>>

\* php_request_startup returns; on success the native response code is set to 200
startup_done(ok) ==
    /\ thread.pc = "startup"
    /\ IF ok
       THEN /\ SG' = 200
            /\ thread' = [thread EXCEPT !.pc = "script"]
            /\ resp' = NoResp
       ELSE /\ resp' = Failed("StartupFailed")
            /\ thread' = [thread EXCEPT !.pc = "recv"]
            /\ UNCHANGED SG
    /\ UNCHANGED <<poolVars, callVars, ret, reply, CAPTURE, hooklog, execs, stale, once,
                   PHP_INITIALIZED, PHP_INIT_ERROR, mailbox, sapi, interp, taken>>

\* the interpreter calls a hook while the request runs
HookCall(ev) ==
    /\ Len(hooklog) < MaxHooks
    /\ CAPTURE' = ApplyHook(CAPTURE, ev)
    /\ hooklog' = Append(hooklog, ev)
    /\ resp' = NoResp
    /\ UNCHANGED <<poolVars, callVars, ret, reply, SG, execs, stale, sapiGlobals>>

call_ub_write(bytes) ==
    /\ thread.pc = "script"
    /\ HookCall(Event("ub_write", "", <<>>, <<>>, 0, bytes))

call_header_handler(op, name, value, fmt) ==
    /\ thread.pc = "script"
    /\ HookCall(Event("header", op, name, value, fmt, <<>>))

call_send_headers ==
    /\ thread.pc = "script"
    /\ HookCall(Event("send_headers", "", <<>>, <<>>, 0, <<SG>>))

call_log_message(msg) ==
    /\ thread.pc \in {"startup", "script"}
    /\ HookCall(Event("log_message", "", <<>>, <<>>, 0, <<msg>>))

\* the script sets the native response code (http_response_code())
set_response_code(code) ==
    /\ thread.pc = "script"
    /\ Len(hooklog) < MaxHooks
    /\ SG' = code
    /\ hooklog' = Append(hooklog, Event("set_code", "", <<>>, <<>>, 0, <<code>>))
    /\ resp' = NoResp
    /\ UNCHANGED <<poolVars, callVars, ret, reply, CAPTURE, execs, stale, sapiGlobals>>

UnknownError == <<0>>

\* the reply of Assemble when only the native call's result counts
AssembleSuccessOnly(success, ob, sg, cap) ==
    IF success
    THEN [tag |-> "Ok", body |-> IF cap.body # <<>> THEN cap.body ELSE ob, headers |-> cap.headers,
          status_code |-> IF cap.status # 200 THEN cap.status ELSE IF sg > 0 THEN sg % 65536 ELSE 200,
          error |-> <<>>]
    ELSE [Failed("Err") EXCEPT !.error = IF cap.last_error # <<>> THEN cap.last_error ELSE UnknownError]

\* the end of execute_script_on_thread: the response, or the error with
\* the last diagnostic, from the output buffer's contents, the native
\* response code and the capture
Assemble(success, ob, sg, cap) ==
    LET body == IF cap.body # <<>> THEN cap.body ELSE ob
        status0 == IF sg > 0 THEN sg % 65536 ELSE 200
        status_code == IF cap.status # 200 THEN cap.status ELSE status0
        has_valid_response == status_code # 200 \/ body # <<>> \/ cap.headers # <<>>
    IN  IF success \/ has_valid_response
        THEN [tag |-> "Ok", body |-> body, headers |-> cap.headers,
              status_code |-> status_code, error |-> <<>>]
        ELSE [Failed("Err") EXCEPT !.error = IF cap.last_error # <<>> THEN cap.last_error
                                             ELSE UnknownError]

\* php_execute_script returns `success`; `ob` is what
\* php_output_get_contents finds in the output buffer; php_output_end
\* then passes it on to ub_write_hook, or not (flushed); the history
\* notes what php_execute_script returned
exec_end(success, ob, flushed) ==
    /\ thread.pc = "script"
    /\ LET ev == Event("ub_write", "", <<>>, <<>>, 0, ob)
           passed == flushed /\ ob # <<>>
           cap == IF passed THEN ApplyHook(CAPTURE, ev) ELSE CAPTURE
       IN  /\ CAPTURE' = cap
           /\ hooklog' = Append(hooklog, Event(IF passed THEN "ub_write" ELSE "output",
                                               IF success THEN "success" ELSE "failure", <<>>, <<>>, 0, ob))
           /\ resp' = Assemble(success, ob, SG, cap)
    /\ thread' = [thread EXCEPT !.pc = "recv"]
    /\ UNCHANGED <<poolVars, callVars, ret, reply, SG, execs, stale, once, PHP_INITIALIZED,
                   PHP_INIT_ERROR, mailbox, sapi, interp, taken>>

\* header names and values the scripts of the model write
NameX == <<"X">>
NameSetCookie == <<"S", "e", "t", "-", "C", "o", "o", "k", "i", "e">>
NameStatus == <<"S", "t", "a", "t", "u", "s">>
HeaderNames == {NameX, to_lowercase(NameX), NameSetCookie, to_lowercase(NameSetCookie)}
HeaderValues == {<<"a">>, <<"b">>}
HeaderOps == {"ADD", "REPLACE"}

NextCapture ==
    \/ \E pathok \in BOOLEAN : exec_begin(pathok)
    \/ \E ok \in BOOLEAN : startup_done(ok)
    \/ call_ub_write(<<65>>)
    \/ \E op \in HeaderOps : call_header_handler(op, NameX, <<"a">>, 1)
    \/ call_header_handler("ADD", NameStatus, <<"4", "0", "4">>, 1)
    \/ call_send_headers
    \/ call_log_message(2)
    \/ set_response_code(500)
    \/ \E success \in BOOLEAN, ob \in {<<>>, <<66>>}, flushed \in BOOLEAN : exec_end(success, ob, flushed)

SpecCapture == InitCapture /\ [][NextCapture]_vars

\* the header hook alone: one execution, just reset, receiving headers
InitHeaders ==
    /\ config = [enable |-> TRUE, mode |-> "Embed", feature |-> TRUE]
    /\ pool = NewPool
    /\ InitProcess("done", TRUE, "script")
    /\ CAPTURE = ResetCapture(DefaultCapture)
    /\ SG = 200
    /\ hooklog = <<>>
    /\ resp = NoResp
    /\ execs = 1
    /\ stale = DefaultCapture

header_handler(op, name, value, fmt) ==
    /\ Len(hooklog) < MaxHeaders
    /\ call_header_handler(op, name, value, fmt)

NextHeaders ==
    \E op \in HeaderOps, name \in HeaderNames, value \in HeaderValues, fmt \in {1, 2} :
        header_handler(op, name, value, fmt)

SpecHeaders == InitHeaders /\ [][NextHeaders]_vars

(***************************************************************************)
(* RequestHandler::execute_php: the HTTP response for one request, from    *)
(* the embedded execution or from the output of the spawned interpreter.   *)
(***************************************************************************)
\* str::find(pat): the index (from 1) of the first occurrence, 0 when there is none
find(str, pat) ==
    LET at == {i \in 1..(Len(str) - Len(pat) + 1) : SubSeq(str, i, i + Len(pat) - 1) = pat}
    IN  IF at = {} THEN 0 ELSE CHOOSE i \in at : \A j \in at : i <= j

\* str::lines: split at "\n", a "\r" before it goes too; no last empty line
RECURSIVE lines(_)
lines(str) ==
    IF str = <<>> THEN <<>>
    ELSE LET nl == find(str, <<"\n">>)
             raw == SubSeq(str, 1, nl - 1)
         IN  IF nl = 0 THEN <<str>>
             ELSE <<IF raw # <<>> /\ raw[Len(raw)] = "\r" THEN SubSeq(raw, 1, Len(raw) - 1) ELSE raw>>
                  \o lines(SubSeq(str, nl + 1, Len(str)))

\* char::is_ascii_alphabetic
is_ascii_alphabetic(ch) == \E k \in DOMAIN UpperCase : ch = UpperCase[k] \/ ch = LowerCase[k]

\* c.is_ascii_alphanumeric() || c == '-' || c == '_'
IsNameChar(ch) == is_ascii_alphabetic(ch) \/ IsDigit(ch) \/ ch \in {"-", "_"}

\* StatusCode::from_u16(code).unwrap_or(StatusCode::OK)
from_u16(code) == IF code >= 100 /\ code < 1000 THEN code ELSE 200

NameLocation == <<"L", "o", "c", "a", "t", "i", "o", "n">>
NameContentType == <<"C", "o", "n", "t", "e", "n", "t", "-", "T", "y", "p", "e">>
\* the other header names parse_php_response passes on
PassedNames == {SetCookieLower,
                <<"c", "a", "c", "h", "e", "-", "c", "o", "n", "t", "r", "o", "l">>,
                <<"e", "x", "p", "i", "r", "e", "s">>,
                <<"p", "r", "a", "g", "m", "a">>,
                <<"x", "-", "p", "o", "w", "e", "r", "e", "d", "-", "b", "y">>,
                <<"x", "-", "f", "r", "a", "m", "e", "-", "o", "p", "t", "i", "o", "n", "s">>,
                <<"x", "-", "c", "o", "n", "t", "e", "n", "t", "-", "t", "y", "p", "e", "-",
                  "o", "p", "t", "i", "o", "n", "s">>}

\* the headers every response gets at the end, each value kept as one token
DefaultContentType == <<NameContentType, <<"text/html; charset=utf-8">>>>
ServerHeaders == <<<<"Server", <<"SERVER_NAME">>>>, <<"X-Powered-By", <<"VeloServe/VERSION">>>>>>

\* a Location line makes the response a redirect when no other status was set before it
NotRedirected(status) == status

Redirected(status) == IF status = 200 THEN 302 ELSE status

\* one line of the header part: acc is the status, content type and headers so far
ParseLine(acc, line) ==
    LET colon == FirstColon(line)
        name == trim_matches(SubSeq(line, 1, colon - 1), Whitespace)
        value == trim_matches(SubSeq(line, colon + 1, Len(line)), Whitespace)
        code == parse_u16(first_token(value))
    IN  IF colon = 0 \/ \E i \in DOMAIN name : ~IsNameChar(name[i]) THEN acc
        ELSE IF to_lowercase(name) = to_lowercase(NameStatus)
             THEN IF code = -1 THEN acc ELSE [acc EXCEPT !.status = from_u16(code)]
        ELSE IF to_lowercase(name) = to_lowercase(NameContentType)
             THEN [acc EXCEPT !.content_type = value]
        ELSE IF to_lowercase(name) = to_lowercase(NameLocation)
             THEN [acc EXCEPT !.status = Redirected(@), !.headers = Append(@, <<NameLocation, value>>)]
        ELSE IF to_lowercase(name) \in PassedNames
             THEN [acc EXCEPT !.headers = Append(@, <<name, value>>)]
        ELSE acc

RECURSIVE ParseLines(_, _)
ParseLines(acc, ls) == IF ls = <<>> THEN acc ELSE ParseLines(ParseLine(acc, Head(ls)), Tail(ls))

\* RequestHandler::parse_php_response
parse_php_response(output) ==
    LET looks_like_headers == output # <<>> /\ is_ascii_alphabetic(Head(output))
        crlf == find(output, <<"\r", "\n", "\r", "\n">>)
        lf == find(output, <<"\n", "\n">>)
        pos == IF crlf # 0 THEN crlf ELSE IF lf # 0 /\ lf - 1 < 500 THEN lf ELSE 0
        skip == IF crlf # 0 THEN 4 ELSE 2
        headers_part == SubSeq(output, 1, pos - 1)
        first_line == IF lines(headers_part) = <<>> THEN <<>> ELSE Head(lines(headers_part))
        has_valid_header ==
            /\ FirstColon(first_line) # 0
            /\ Head(first_line) # "<"
            /\ \A i \in DOMAIN first_line : first_line[i] # "{"
            /\ \A i \in 1..(FirstColon(first_line) - 1) : IsNameChar(first_line[i])
        parsed == looks_like_headers /\ pos # 0 /\ has_valid_header
        initial == [status |-> 200, content_type |-> DefaultContentType[2], headers |-> <<>>]
        acc == IF parsed THEN ParseLines(initial, lines(headers_part)) ELSE initial
    IN  [kind |-> "response", status |-> acc.status,
         headers |-> acc.headers \o <<<<NameContentType, acc.content_type>>>> \o ServerHeaders,
         body |-> IF parsed THEN SubSeq(output, pos + skip, Len(output)) ELSE output]

\* RequestHandler::build_embed_response; a header the builder refuses
\* gives the bare 500 response
build_embed_response(r) ==
    LET content_type_set ==
            \E k \in DOMAIN r.headers : to_lowercase(r.headers[k][1]) = to_lowercase(NameContentType)
        refused == \E k \in DOMAIN r.headers :
            r.headers[k][1] = <<>> \/ \E i \in DOMAIN r.headers[k][1] : ~IsNameChar(r.headers[k][1][i])
    IN  IF refused
        THEN [kind |-> "response", status |-> 500, headers |-> <<>>, body |-> <<"Internal Server Error">>]
        ELSE [kind |-> "response", status |-> from_u16(r.status_code),
              headers |-> r.headers \o (IF content_type_set THEN <<>> ELSE <<DefaultContentType>>)
                          \o ServerHeaders,
              body |-> r.body]

\* RequestHandler::internal_error
internal_error == [kind |-> "error", status |-> 500,
                   headers |-> <<DefaultContentType, ServerHeaders[1]>>, body |-> <<"PHP Error">>]

MaxLines == 3
\* the header lines the interpreter writes for the model's scripts
LocationLine == NameLocation \o <<":", " ", "/", "x">>
CgiLines == {LocationLine,
             NameStatus \o <<":", " ", "4", "0", "4", " ", "N", "o">>,
             NameSetCookie \o <<":", " ", "a">>,
             <<"X", ":", "a">>}
LineEndings == {<<"\r", "\n">>, <<"\n">>}
\* what the model's scripts write after the header part
CgiBodies == {<<>>, <<"b">>, <<"b", "\r", "\n", "\r", "\n", "c">>}

\* the served request, in embedded mode: the execution on the dedicated thread
embed_begin(pathok) ==
    /\ config.mode = "Embed" /\ execs = 0
    /\ exec_begin(pathok)

\* the script calls header('Location: /x'): the interpreter sets the native
\* response code to 302 unless it is a 3xx or 201 already, and hands the
\* line to the header hook
header_location ==
    /\ thread.pc = "script"
    /\ Len(hooklog) < MaxHooks
    /\ SG' = IF (SG < 300 \/ SG > 399) /\ SG # 201 THEN 302 ELSE SG
    /\ LET ev == Event("header", "REPLACE", NameLocation, <<"/", "x">>, 1, <<>>)
       IN  /\ CAPTURE' = ApplyHook(CAPTURE, ev)
           /\ hooklog' = Append(hooklog, ev)
    /\ resp' = NoResp
    /\ UNCHANGED <<poolVars, callVars, ret, reply, execs, stale, sapiGlobals>>

\* execute_php, embedded mode: the result of execute_embed becomes the response
execute_php_embed ==
    /\ config.mode = "Embed"
    /\ resp.tag # "none" /\ http.kind = "none"
    /\ http' = IF resp.tag = "Ok" THEN build_embed_response(resp) ELSE internal_error
    /\ UNCHANGED <<config, workerVars, cgi, pool, callVars, ret, reply, sapiGlobals, captureVars, libVars>>

\* the spawned interpreter writes a header line
cgi_write(line, eol) ==
    /\ config.mode = "Cgi"
    /\ cgi.st = "running" /\ Len(cgi.lines) < MaxLines
    /\ cgi.eol \in {<<>>, eol}
    /\ cgi' = [cgi EXCEPT !.stdout = @ \o line \o eol, !.lines = Append(@, line), !.eol = eol]
    /\ UNCHANGED <<config, workerVars, http, pool, callVars, ret, reply, sapiGlobals, captureVars, libVars>>

\* it ends the header part, if any, writes the body and exits
cgi_exit(code, body) ==
    /\ config.mode = "Cgi"
    /\ cgi.st = "running"
    /\ cgi' = [cgi EXCEPT !.st = "exited", !.code = code, !.body = body,
                          !.stdout = IF cgi.lines = <<>> THEN body ELSE @ \o cgi.eol \o body]
    /\ UNCHANGED <<config, workerVars, http, pool, callVars, ret, reply, sapiGlobals, captureVars, libVars>>

\* the tail of do_execute_cgi on ASCII text, which from_utf8_lossy keeps
CgiOutcome(code, stdout) ==
    IF code # 0 /\ stdout = <<>> THEN Res("ScriptFailed", <<>>) ELSE Res("Ok", stdout)

\* execute_php, spawn mode: the output of execute_cgi is parsed into the response
execute_php_cgi ==
    /\ config.mode = "Cgi"
    /\ cgi.st = "exited"
    /\ cgi' = [cgi EXCEPT !.st = "served"]
    /\ http' = IF CgiOutcome(cgi.code, cgi.stdout).tag = "Ok"
               THEN parse_php_response(CgiOutcome(cgi.code, cgi.stdout).val)
               ELSE internal_error
    /\ UNCHANGED <<config, workerVars, pool, callVars, ret, reply, sapiGlobals, captureVars, libVars>>

InitHandler ==
    /\ config \in [enable : {TRUE}, mode : {"Embed", "Cgi"}, feature : {TRUE}]
    /\ pool = [NewPool EXCEPT !.pc = "started", !.available = TRUE, !.running = TRUE]
    /\ InitProcess("done", TRUE, "recv")
    /\ CAPTURE = DefaultCapture
    /\ SG = 0
    /\ hooklog = <<>>
    /\ resp = NoResp
    /\ execs = 0
    /\ stale = DefaultCapture

NextHandler ==
    \/ \E pathok \in BOOLEAN : embed_begin(pathok)
    \/ \E ok \in BOOLEAN : startup_done(ok)
    \/ header_location
    \/ call_header_handler("ADD", NameStatus, <<"4", "0", "4">>, 1)
    \/ call_ub_write(<<65>>)
    \/ call_send_headers
    \/ call_log_message(2)
    \/ set_response_code(500)
    \/ \E success \in BOOLEAN, ob \in {<<>>, <<66>>}, flushed \in BOOLEAN : exec_end(success, ob, flushed)
    \/ execute_php_embed
    \/ \E line \in CgiLines, eol \in LineEndings : cgi_write(line, eol)
    \/ \E code \in {0, 1}, body \in CgiBodies : cgi_exit(code, body)
    \/ execute_php_cgi

SpecHandler == InitHandler /\ [][NextHandler]_vars

(***************************************************************************)
(* vephp: PhpWorkerServer, its connection threads and the WorkerPool.      *)
(***************************************************************************)
Conns == 1..NumConns
\* what a connection brings: an Execute with or without server variables,
\* a HealthCheck, a Status, bytes that do not deserialize, or nothing
\* before it is closed (Empty)
ServerVars == {{}, {"REQUEST_URI"}}
Requests == [request_type : {"Execute"}, script_path : {1}, server_vars : ServerVars]
            \cup [request_type : {"HealthCheck", "Status", "Invalid", "Empty"},
                  script_path : {1}, server_vars : {{}}]
\* the environment of the vephp process, which its children inherit
InheritedEnv == {"PATH"}

\* PhpResponse::ok, PhpResponse::error, PhpResponse::queued
PhpResponse_ok(body, stderr) ==
    [success |-> TRUE, status_code |-> 200, body |-> body, error |-> "", stderr |-> stderr,
     queued |-> FALSE]
\* an error reported as a success
PhpResponse_error_as_ok(message) ==
    [success |-> TRUE, status_code |-> 200, body |-> "", error |-> message, stderr |-> message,
     queued |-> FALSE]
PhpResponse_error(message) ==
    [success |-> FALSE, status_code |-> 500, body |-> "", error |-> message, stderr |-> message,
     queued |-> FALSE]
PhpResponse_queued ==
    [success |-> TRUE, status_code |-> 202, body |-> "", error |-> "", stderr |-> "", queued |-> TRUE]

\* PhpWorkerServer::new, WorkerPool::new: spawn_workers pushes a worker
\* for every id whose process could be spawned
server_new(spawned) ==
    /\ wpool.pc = "none"
    /\ wpool' = [wpool EXCEPT
           !.pc = "listening",
           !.workers = SelectSeq([i \in 1..MaxWorkers |->
                                     [id |-> i - 1, busy |-> FALSE,
                                      process |-> [NoProcess EXCEPT !.kind = "worker", !.id = i - 1,
                                                                    !.env = InheritedEnv]]],
                                 LAMBDA w : spawned[w.id])]
    /\ UNCHANGED <<conn, config, handlerVars, pool, callVars, ret, reply, sapiGlobals, captureVars, libVars>>

\* a health check that waits for the pool's lock as the other requests do
HealthCheckLocked(c, request) ==
    [c EXCEPT !.pc = "lock", !.request = request, !.reads = @ + 1]

\* RequestType::HealthCheck => PhpResponse::ok("healthy", "")
HealthCheck(c, request) ==
    [c EXCEPT !.pc = "send", !.request = request, !.reads = @ + 1,
              !.response = PhpResponse_ok("healthy", "")]

\* handle_connection up to the match on the request type: the one read of
\* the stream; with no byte read the thread returns; a request that does
\* not deserialize and a HealthCheck are answered without the pool
read_request(t, request) ==
    /\ wpool.pc = "listening"
    /\ conn[t].pc = "idle"
    /\ conn' = [conn EXCEPT ![t] =
           CASE request.request_type = "Empty" -> [conn[t] EXCEPT !.pc = "closed"]
             [] request.request_type = "Invalid" ->
                    [conn[t] EXCEPT !.pc = "send", !.request = request, !.reads = @ + 1,
                                    !.response = PhpResponse_error("Invalid request")]
             [] request.request_type = "HealthCheck" -> HealthCheck(conn[t], request)
             [] OTHER -> [conn[t] EXCEPT !.pc = "lock", !.request = request, !.reads = @ + 1]]
    /\ UNCHANGED <<wpool, config, handlerVars, pool, callVars, ret, reply, sapiGlobals, captureVars, libVars>>

\* the first worker that is not busy, 0 when there is none
FirstIdle(workers) ==
    IF \E i \in DOMAIN workers : ~workers[i].busy
    THEN CHOOSE i \in DOMAIN workers : ~workers[i].busy /\ \A j \in 1..(i - 1) : workers[j].busy
    ELSE 0

\* the pending queue takes one more request
CanQueueAlways(queue) == TRUE

CanQueue(queue) == Len(queue) < QueueLimit

\* worker.busy = false after run_php
KeepBusy(workers, i) == workers

MarkIdle(workers, i) == [workers EXCEPT ![i].busy = FALSE]

\* the process run_php starts for a request: `php -d .. -d .. script_path`
RunPhpCommand(request) ==
    [kind |-> "command", id |-> 0, script |-> request.script_path, env |-> InheritedEnv]

\* the owner of the pool's mutex while run_php waits for the script: the
\* guard of handle_connection lives to the end of the match arm; a guard
\* dropped before the script runs would leave the mutex free
GuardDropped(t) == 0

GuardHeld(t) == t

\* pool.lock() and WorkerPool::execute up to the wait for the script: with
\* an idle worker it is marked busy and run_php starts its command (which
\* may fail at once); without, the request is queued or refused
pool_execute(t, spawn_ok) ==
    /\ conn[t].pc = "lock" /\ conn[t].request.request_type = "Execute"
    /\ wpool.lock = 0
    /\ LET w == FirstIdle(wpool.workers)
       IN  IF w # 0
           THEN IF spawn_ok
                THEN /\ wpool' = [wpool EXCEPT !.lock = GuardHeld(t), !.workers[w].busy = TRUE]
                     /\ conn' = [conn EXCEPT ![t].pc = "run", ![t].worker = w,
                                             ![t].child = RunPhpCommand(conn[t].request)]
                ELSE /\ wpool' = [wpool EXCEPT !.workers = MarkIdle(@, w)]
                     /\ conn' = [conn EXCEPT ![t].pc = "send", ![t].worker = w,
                                             ![t].response = PhpResponse_error("Failed to execute PHP")]
           ELSE IF CanQueue(wpool.request_queue)
                THEN /\ wpool' = [wpool EXCEPT !.request_queue = Append(@, conn[t].request)]
                     /\ conn' = [conn EXCEPT ![t].pc = "send", ![t].response = PhpResponse_queued]
                ELSE /\ conn' = [conn EXCEPT ![t].pc = "send",
                                             ![t].response = PhpResponse_error("Worker pool exhausted")]
                     /\ UNCHANGED wpool
    /\ UNCHANGED <<config, handlerVars, pool, callVars, ret, reply, sapiGlobals, captureVars, libVars>>

\* the command has exited: run_php makes the response, execute marks the
\* worker idle and returns, and handle_connection drops the guard
run_done(t, code) ==
    /\ conn[t].pc = "run"
    /\ wpool' = [wpool EXCEPT !.lock = 0, !.workers = MarkIdle(@, conn[t].worker)]
    /\ conn' = [conn EXCEPT ![t].pc = "send",
                            ![t].child.kind = "exited",
                            ![t].response = IF code = 0 THEN PhpResponse_ok("stdout", "stderr")
                                            ELSE PhpResponse_error("PHP exit code")]
    /\ UNCHANGED <<config, handlerVars, pool, callVars, ret, reply, sapiGlobals, captureVars, libVars>>

\* WorkerPool::status_json
status_json(p) ==
    [total_workers |-> Len(p.workers),
     busy |-> Cardinality({i \in DOMAIN p.workers : p.workers[i].busy}),
     available |-> Len(p.workers) - Cardinality({i \in DOMAIN p.workers : p.workers[i].busy}),
     queued |-> Len(p.request_queue)]

\* RequestType::Status: the status under the lock
pool_status(t) ==
    /\ conn[t].pc = "lock" /\ conn[t].request.request_type = "Status"
    /\ wpool.lock = 0
    /\ conn' = [conn EXCEPT ![t].pc = "send", ![t].response = PhpResponse_ok("status", status_json(wpool))]
    /\ UNCHANGED <<wpool, config, handlerVars, pool, callVars, ret, reply, sapiGlobals, captureVars, libVars>>

\* after the response handle_connection reads the stream again
KeepAlive(c) == [c EXCEPT !.pc = "idle", !.writes = @ + 1]

\* after the response handle_connection returns, which drops the stream
ReturnOk(c) == [c EXCEPT !.pc = "closed", !.writes = @ + 1]

\* send_response, and the end of the connection thread
send_response(t) ==
    /\ conn[t].pc = "send"
    /\ conn' = [conn EXCEPT ![t] = ReturnOk(@)]
    /\ UNCHANGED <<wpool, config, handlerVars, pool, callVars, ret, reply, sapiGlobals, captureVars, libVars>>

\* PhpWorkerServer::run accepts the next connection and spawns its thread
accept(t) ==
    /\ conn[t].pc = "closed"
    /\ conn' = [conn EXCEPT ![t] = NoConn]
    /\ UNCHANGED <<wpool, config, handlerVars, pool, callVars, ret, reply, sapiGlobals, captureVars, libVars>>

InitWorker ==
    /\ config = [enable |-> FALSE, mode |-> "Socket", feature |-> FALSE]
    /\ pool = NewPool
    /\ InitCommon

NextWorker ==
    \/ \E spawned \in [0..(MaxWorkers - 1) -> BOOLEAN] : server_new(spawned)
    \/ \E t \in Conns, request \in Requests : read_request(t, request)
    \/ \E t \in Conns, spawn_ok \in BOOLEAN : pool_execute(t, spawn_ok)
    \/ \E t \in Conns, code \in {0, 1} : run_done(t, code)
    \/ \E t \in Conns : pool_status(t)
    \/ \E t \in Conns : send_response(t)
    \/ \E t \in Conns : accept(t)

SpecWorker == InitWorker /\ [][NextWorker]_vars

\* the threads are scheduled: a connection thread whose command has
\* exited or whose response is ready goes on, and a thread that waits for
\* the mutex gets it in the end if it is free again and again
SpecWorkerFair ==
    /\ SpecWorker
    /\ \A t \in Conns :
          /\ SF_vars(\E spawn_ok \in BOOLEAN : pool_execute(t, spawn_ok))
          /\ SF_vars(pool_status(t))
          /\ WF_vars(\E code \in {0, 1} : run_done(t, code))
          /\ WF_vars(send_response(t))

(***************************************************************************)
(* Properties of the orchestrator.                                         *)
(***************************************************************************)
\* C1: the calls between their permit acquisition and their return are
\* never more than the configured number of workers, whatever the
\* interleaving of execute_cgi, execute_with_body, execute_simple and
\* execute_embed.
C1_InFlightAtMostWorkers == Cardinality(InFlight) <= Workers

\* all permits are out and one more task waits at the semaphore
C1_Witness ==
    /\ Cardinality(InFlight) = Workers
    /\ \E c \in Callers : pc[c] = "acquire"
    /\ \E c, d \in InFlight : call[c].kind # call[d].kind

\* the return paths of a call that held a permit
ReturnTags == {"Ok", "ScriptFailed", "SpawnFailed", "BodyWriteFailed", "WaitFailed", "ExecFailed",
               "Timeout", "EmbedNotInitialized", "SapiNotInitialized", "SendFailed", "SapiTimeout"}

\* C2: a permit is out exactly while its call is in flight, so every
\* return, on whichever path, has given the permit back; a task waiting
\* at the semaphore can go on as soon as fewer than N calls are in
\* flight; with no call in flight all N permits are there.
C2_PermitReleasedOnReturn ==
    /\ pool.permits + Cardinality(InFlight) = Workers
    /\ ret.c # 0 /\ ret.res.tag \in ReturnTags => ~Holding(ret.c) /\ pool.permits >= 1
    /\ \A c \in Callers :
          pc[c] = "acquire" /\ Cardinality(InFlight) < Workers => ENABLED acquire(c)
    /\ InFlight = {} => pool.permits = Workers

\* a call has just returned on a failure path while all other permits
\* were out, and a task blocked at the semaphore can now go on
C2_Witness ==
    /\ ret.c # 0
    /\ ret.res.tag \in ReturnTags \ {"Ok"}
    /\ Cardinality(InFlight) = Workers - 1
    /\ \E c \in Callers : pc[c] = "acquire" /\ ENABLED acquire(c)

\* the steps with which a waiting call ends by its deadline, and those
\* with which it goes on by itself
Deadline(c) == timeout(c) \/ sapi_timeout(c)
Completes(c) ==
    \/ write_done(c) \/ write_fail(c) \/ wait_failed(c)
    \/ \E code \in {0, 1}, out \in Outputs, err \in Outputs : wait_output(c, code, out, err)
    \/ sapi_send(c) \/ sapi_recv(c)

\* C3: a call that waits (for the body to be written to the child, for
\* the child, for room in the mailbox, for the thread's reply) can always
\* either go on or give up with a timeout error, so that no caller waits
\* for as long as a script pleases.
C3_WaitingCallHasDeadline ==
    \A c \in Callers :
        pc[c] \in {"write", "wait", "send", "recv"} => ENABLED (Deadline(c) \/ Completes(c))

\* C4: once the spawn strategy has returned the timeout error to the
\* caller, the interpreter process started for that call no longer runs.
C4_NoProcessAfterTimeout ==
    ret.c # 0 /\ ret.res.tag = "Timeout" => child[ret.c].st # "running"

\* C5: execute_cgi and execute_with_body return the (decoded) standard
\* output as success when the process exited with zero, or with non-zero
\* and some output; the script failure carrying the (decoded) standard
\* error when it exited with non-zero and no output; the spawn error only
\* when no process was created; the timeout error only when the deadline
\* passed with the process still running.
C5_SpawnOutcomes ==
    ret.c # 0 /\ ret.kind \in {"cgi", "with_body"} =>
        /\ ret.exit.st = "exited" /\ (ret.exit.code = 0 \/ ret.exit.stdout # <<>>)
              => ret.res = Res("Ok", from_utf8_lossy(ret.exit.stdout))
        /\ ret.exit.st = "exited" /\ ret.exit.code # 0 /\ ret.exit.stdout = <<>>
              => ret.res = Res("ScriptFailed", from_utf8_lossy(ret.exit.stderr))
        /\ ret.res.tag \in {"Ok", "ScriptFailed"} <=> ret.exit.st = "exited"
        /\ ret.res.tag = "SpawnFailed" => child[ret.c].st = "none"
        /\ ret.res.tag = "Timeout" => child[ret.c].st = "running"

\* a process that exited with non-zero after writing output and
\* diagnostics has been collected: its output is the success value
C5_Witness ==
    /\ ret.kind \in {"cgi", "with_body"}
    /\ ret.exit.st = "exited" /\ ret.exit.code # 0
    /\ ret.exit.stdout # <<>> /\ ret.exit.stderr # <<>>
    /\ ret.res.tag = "Ok"

\* start() has ended without making PHP available
StartFailed == pool.pc = "started" /\ ~pool.available

\* C6 as stated: after a failed start the pool is neither available nor
\* running, no call acquires a permit or starts an execution, and every
\* execute call returns the 'not available' error.
C6_FailedStartNotAvailable ==
    StartFailed =>
        /\ ~pool.running
        /\ pool.permits = Workers /\ pool.active_workers = 0
        /\ \A c \in Callers : pc[c] = "idle" /\ child[c] = NoChild
        /\ mailbox = <<>> /\ thread.pc # "exec"
        /\ ret.c # 0 => ret.res.tag = "NotAvailable"

\* C6, amended: ... every execute call returns an error at once: the
\* 'not available' error, except that execute_embed on a pool whose mode
\* is not Embed returns the 'not in embed mode' error.
C6_FailedStartRefusesCalls ==
    StartFailed =>
        /\ ~pool.running
        /\ pool.permits = Workers /\ pool.active_workers = 0
        /\ \A c \in Callers : pc[c] = "idle" /\ child[c] = NoChild
        /\ mailbox = <<>> /\ thread.pc # "exec"
        /\ ret.c # 0 =>
              ret.res.tag = IF ret.kind = "embed" /\ config.mode # "Embed"
                            THEN "NotEmbedMode" ELSE "NotAvailable"

\* the embedded interpreter failed to initialize and a later
\* execute_embed call has been refused
C6_Witness ==
    /\ StartFailed
    /\ config.enable /\ config.mode = "Embed" /\ PHP_INIT_ERROR
    /\ ret.c # 0 /\ ret.kind = "embed" /\ ret.res.tag = "NotAvailable"

(***************************************************************************)
(* Properties of the embedded interpreter's thread and mailbox.            *)
(***************************************************************************)
\* C7: every call into the embedded interpreter is made on the dedicated
\* thread, and none while the dedicated thread is inside the interpreter,
\* whatever PhpSapi operations (initialize, execute_script, eval_string,
\* drop) are called.
C7_InterpreterOnDedicatedThread == ~interp.foreign /\ ~interp.overlap

\* the reply channels of the messages waiting in the mailbox
Queued == {mailbox[i].ch : i \in DOMAIN mailbox}

\* C8: with concurrent callers of execute_script no mailbox message is
\* consumed twice or lost (a sent request is in the mailbox or has been
\* received by the thread), a reply reaches only the caller whose request
\* it was computed for, and what a caller gets back is the result for the
\* script it named.
C8_OwnResponse ==
    /\ \A i, j \in DOMAIN mailbox : mailbox[i].ch = mailbox[j].ch => i = j
    /\ Queued \cap taken = {}
    /\ thread.pc = "exec" => thread.cur.ch \in taken
    /\ \A c \in Callers :
          /\ pc[c] = "recv" => call[c].ch \in Queued \cup taken
          /\ reply[c] # NoResult =>
                /\ pc[c] = "recv" /\ reply[c].for = call[c].ch
                /\ reply[c].val = <<call[c].script>>
    /\ ret.c # 0 /\ ret.res.tag \in {"Ok", "ScriptFailed"} /\ ret.kind = "sapi" =>
          /\ ret.res.for = ret.ch /\ ret.res.val = <<ret.script>>
          /\ ret.ch \in taken

\* a caller has its own reply in hand while another caller's request for
\* another script, sent earlier by a call that gave up, was executed
\* before it and a third is still waiting
C8_Witness ==
    /\ ret.c # 0 /\ ret.kind = "sapi" /\ ret.res.tag = "Ok"
    /\ \E d \in Callers \ {ret.c} :
          pc[d] \in {"send", "recv"} /\ call[d].script # ret.script
    /\ Cardinality(taken) >= 2

(***************************************************************************)
(* Properties of the capture.                                              *)
(***************************************************************************)
CleanCapture == [body |-> <<>>, headers |-> <<>>, status |-> 200, last_error |-> <<>>]

\* the capture a history of hook calls produces from a capture
RECURSIVE Replay(_, _)
Replay(cap, log) == IF log = <<>> THEN cap ELSE Replay(ApplyHook(cap, Head(log)), Tail(log))

\* the native response code a history of calls leaves
RECURSIVE NativeCode(_)
NativeCode(log) ==
    IF log = <<>> THEN 200
    ELSE IF log[Len(log)].hook = "set_code" THEN log[Len(log)].data[1]
    ELSE NativeCode(SubSeq(log, 1, Len(log) - 1))

\* C9: during every execution the capture holds what the hook calls of
\* that execution alone put there, starting from the empty body, no
\* headers, status 200 and no last error; and the response or error an
\* execution returns is assembled from that and from nothing an earlier
\* execution captured. The errors returned before the script runs carry
\* no captured content at all.
C9_CaptureOfThisExecutionOnly ==
    /\ thread.pc \in {"startup", "script"} => CAPTURE = Replay(CleanCapture, hooklog)
    /\ resp.tag \in {"Ok", "Err"} =>
          \E success \in BOOLEAN :
              resp = Assemble(success, hooklog[Len(hooklog)].data, NativeCode(hooklog),
                              Replay(CleanCapture, hooklog))
    /\ resp.tag \in {"InvalidPath", "StartupFailed"} => resp = Failed(resp.tag)

\* an execution that captured nothing has just failed with the 'unknown
\* error' text, after an execution that left a body, a header, a status
\* and a diagnostic in the capture
C9_Witness ==
    /\ execs = 2
    /\ resp.tag = "Err" /\ resp.error = UnknownError
    /\ stale.body # <<>> /\ stale.headers # <<>> /\ stale.last_error # <<>>

\* the same name, compared without regard to the case of ASCII letters
SameLetter(x, y) ==
    x = y \/ \E k \in DOMAIN UpperCase : {x, y} = {UpperCase[k], LowerCase[k]}
SameName(a, b) == Len(a) = Len(b) /\ \A i \in DOMAIN a : SameLetter(a[i], b[i])

\* the header list the stated rule gives for a history of header calls
RECURSIVE Expected(_)
Expected(log) ==
    IF log = <<>> THEN <<>>
    ELSE LET e == log[Len(log)]
             before == Expected(SubSeq(log, 1, Len(log) - 1))
             kept == IF e.op = "REPLACE" /\ ~SameName(e.name, NameSetCookie)
                     THEN SelectSeq(before, LAMBDA h : ~SameName(h[1], e.name))
                     ELSE before
         IN  Append(kept, <<e.name, e.value>>)

\* what the script issued, without the spelling of the raw lines
Issued == [i \in DOMAIN hooklog |-> <<hooklog[i].op, hooklog[i].name, hooklog[i].value>>]

\* C10: an ADD appends the header; a REPLACE removes the captured
\* headers of the same name, compared case-insensitively, unless the name
\* is Set-Cookie, and then appends. `X: a` then replace `X: b` leaves
\* only `X: b`; `Set-Cookie: a` then replace `Set-Cookie: b` leaves both
\* in that order.
C10_HeaderAddReplace ==
    /\ CAPTURE.headers = Expected(hooklog)
    /\ Issued = << <<"ADD", NameX, <<"a">> >>, <<"REPLACE", NameX, <<"b">> >> >>
          => CAPTURE.headers = << <<NameX, <<"b">> >> >>
    /\ Issued = << <<"ADD", NameSetCookie, <<"a">> >>, <<"REPLACE", NameSetCookie, <<"b">> >> >>
          => CAPTURE.headers = << <<NameSetCookie, <<"a">> >>, <<NameSetCookie, <<"b">> >> >>

\* after `X: a`, `Set-Cookie: a` and a replace of `x: b` written with a
\* trailing CR LF, the cookie and `x: b` are left
C10_Witness ==
    /\ Issued = << <<"ADD", NameX, <<"a">> >>, <<"ADD", NameSetCookie, <<"a">> >>,
                   <<"REPLACE", to_lowercase(NameX), <<"b">> >> >>
    /\ hooklog[3].fmt = 2
    /\ CAPTURE.headers = << <<NameSetCookie, <<"a">> >>, <<to_lowercase(NameX), <<"b">> >> >>

(***************************************************************************)
(* Properties of the response assembled from the capture.                  *)
(***************************************************************************)
\* the hook calls of this execution that carried a Status line
StatusLines == {i \in DOMAIN hooklog : hooklog[i].hook = "header" /\ SameName(hooklog[i].name, NameStatus)}

\* C11: the status of the response of an embedded execution is the code
\* of the (last) Status line the script emitted, whatever the code and
\* whichever of the header hook and the send-headers hook ran last;
\* without a Status line it is the native response code when that is set,
\* and 200 otherwise; no Status line is among the response's headers.
C11_StatusPrecedence ==
    resp.tag = "Ok" =>
        /\ resp.status_code =
              IF StatusLines # {}
              THEN parse_u16(first_token(trim_matches(
                       hooklog[CHOOSE i \in StatusLines : \A j \in StatusLines : j <= i].value, Whitespace)))
              ELSE IF NativeCode(hooklog) > 0 THEN NativeCode(hooklog) ELSE 200
        /\ \A k \in DOMAIN resp.headers : ~SameName(resp.headers[k][1], NameStatus)

\* what php_execute_script returned in the execution that has just ended
NativeSuccess == hooklog[Len(hooklog)].op = "success"

\* C12: an execution that ran the script replies with the response exactly
\* when the native call reported success, or the final status is not 200,
\* or the body is not empty, or a header was captured; in every other
\* case it replies with an error, which carries the last diagnostic the
\* log hook captured (the 'unknown error' text when there is none).
C12_SuccessClassification ==
    resp.tag \in {"Ok", "Err"} =>
        LET ob == hooklog[Len(hooklog)].data
            body == IF CAPTURE.body # <<>> THEN CAPTURE.body ELSE ob
            final == IF CAPTURE.status # 200 THEN CAPTURE.status ELSE IF SG > 0 THEN SG ELSE 200
            valid == NativeSuccess \/ final # 200 \/ body # <<>> \/ CAPTURE.headers # <<>>
        IN  /\ resp.tag = "Ok" <=> valid
            /\ resp.tag = "Ok" =>
                  resp.body = body /\ resp.status_code = final /\ resp.headers = CAPTURE.headers
            /\ resp.tag = "Err" =>
                  resp.error = IF CAPTURE.last_error # <<>> THEN CAPTURE.last_error ELSE UnknownError

\* the native call reported failure and nothing but one header was
\* captured: the caller gets the response
C12_Witness ==
    /\ resp.tag = "Ok" /\ ~NativeSuccess
    /\ resp.status_code = 200 /\ resp.body = <<>> /\ Len(resp.headers) = 1

(***************************************************************************)
(* Properties of the response the handler builds.                          *)
(***************************************************************************)
\* the script of the served request wrote Location: /x, set no status of
\* its own, ended early, left no body
EmbedLocation == \E i \in DOMAIN hooklog : hooklog[i].hook = "header" /\ hooklog[i].name = NameLocation
EmbedEarlyEnd == ~NativeSuccess /\ hooklog[Len(hooklog)].data = <<>> /\ CAPTURE.body = <<>>
EmbedOwnStatus == StatusLines # {} \/ \E i \in DOMAIN hooklog : hooklog[i].hook = "set_code"
CgiLocation == \E i \in DOMAIN cgi.lines : cgi.lines[i] = LocationLine
CgiOwnStatus == \E i \in DOMAIN cgi.lines : starts_with(cgi.lines[i], StatusPrefixUpper)

C13_WitnessEmbed ==
    /\ config.mode = "Embed" /\ EmbedLocation /\ EmbedEarlyEnd /\ ~EmbedOwnStatus
    /\ http.kind = "response" /\ http.status = 302

Busy == {i \in DOMAIN wpool.workers : wpool.workers[i].busy}

\* C15: in the WorkerPool the busy workers are never more than the
\* workers, the workers never more than max_workers, and the pending
\* queue never longer than its limit.
C15_PoolBounds ==
    /\ Cardinality(Busy) <= Len(wpool.workers)
    /\ Len(wpool.workers) <= MaxWorkers
    /\ Len(wpool.request_queue) <= QueueLimit

\* the queue is full and one more Execute request waits for the pool
C15_Witness ==
    /\ Len(wpool.request_queue) = QueueLimit
    /\ \E t \in Conns : conn[t].pc = "lock" /\ conn[t].request.request_type = "Execute"

\* all workers were spawned and one of them is busy
C15_WitnessBusy == Len(wpool.workers) = MaxWorkers /\ Cardinality(Busy) = 1

\* C16: WorkerPool::execute with an idle worker marks it busy, runs the
\* script, marks the worker idle again whatever the outcome, and returns
\* the result; without an idle worker and with room in the queue it
\* appends the request and returns the queued response (success, 202,
\* queued); otherwise it returns the pool-exhausted error and leaves the
\* queue as it is.
C16_ExecuteBranches ==
    [][\A t \in Conns :
          /\ conn[t].pc = "lock" /\ conn'[t].pc # "lock" /\ conn[t].request.request_type = "Execute" =>
                IF \E i \in DOMAIN wpool.workers : ~wpool.workers[i].busy
                THEN /\ wpool'.request_queue = wpool.request_queue
                     /\ \/ /\ conn'[t].pc = "run"
                           /\ ~wpool.workers[conn'[t].worker].busy /\ wpool'.workers[conn'[t].worker].busy
                        \/ /\ conn'[t].pc = "send" /\ ~conn'[t].response.success
                           /\ wpool'.workers = wpool.workers
                ELSE IF Len(wpool.request_queue) < QueueLimit
                THEN /\ wpool'.request_queue = Append(wpool.request_queue, conn[t].request)
                     /\ conn'[t].pc = "send"
                     /\ conn'[t].response.success /\ conn'[t].response.status_code = 202
                     /\ conn'[t].response.queued
                ELSE /\ wpool'.request_queue = wpool.request_queue
                     /\ conn'[t].pc = "send"
                     /\ ~conn'[t].response.success /\ conn'[t].response.error = "Worker pool exhausted"
          /\ conn[t].pc = "run" /\ conn'[t].pc # "run" =>
                /\ conn'[t].pc = "send" /\ ~conn'[t].response.queued
                /\ ~wpool'.workers[conn[t].worker].busy
                /\ wpool'.request_queue = wpool.request_queue]_vars

\* a script has just failed on a worker, and the worker is idle again
C16_Witness ==
    \E t \in Conns :
        /\ conn[t].pc = "send" /\ conn[t].worker # 0 /\ conn[t].child.kind = "exited"
        /\ ~conn[t].response.success
        /\ ~wpool.workers[conn[t].worker].busy

\* a request has just been refused with the queue full
C16_WitnessExhausted ==
    \E t \in Conns : conn[t].pc = "send" /\ conn[t].response.error = "Worker pool exhausted"

\* C17: a request that was answered with the queued response does not
\* stay in the pending queue forever: it is taken out, to be run or to
\* be refused.
C17_QueuedRequestLeavesQueue == (wpool.request_queue # <<>>) ~> (wpool.request_queue = <<>>)

\* C18: the script of an Execute request runs in the long-lived process
\* that was spawned for the worker it was dispatched to; serving the
\* request creates no interpreter process.
C18_RunsInWorkerProcess ==
    \A t \in Conns : conn[t].pc = "run" => conn[t].child = wpool.workers[conn[t].worker].process

\* C19: the process that runs the script of an Execute request has the
\* request's server variables in its environment.
C19_ServerVarsApplied ==
    \A t \in Conns : conn[t].pc = "run" => conn[t].request.server_vars \subseteq conn[t].child.env

\* C20: at most one connection thread is inside the pool's dispatch at a
\* time, and a thread whose script runs does not hold the pool's lock,
\* so that requests dispatched to different workers run at the same time.
C20_DispatchExclusiveExecutionUnlocked ==
    /\ \A t, u \in Conns :
          t # u /\ conn[t].pc = "run" /\ conn[u].pc = "run" => conn[t].worker # conn[u].worker
    /\ \A t \in Conns : conn[t].pc = "run" => wpool.lock # t

\* what the lock around WorkerPool::execute does instead: no two scripts
\* ever run at the same time, however many workers are idle
ExecutionsSerialized == Cardinality({t \in Conns : conn[t].pc = "run"}) <= 1

\* the pending queue never gets shorter
QueueOnlyGrows == [][Len(wpool'.request_queue) >= Len(wpool.request_queue)]_vars

MaxMsg == 3
\* the receiver's buffer, [0u8; 65536], scaled down
BufferSize == 4
Bytes == {0, 1}
\* tag: RequestType's variant index, or PhpResponse's success flag; body: the
\* one variable-length field (the other fields add a fixed number of bytes)
Messages == [tag : {0, 1}, body : UNION {[1..n -> Bytes] : n \in 0..MaxMsg}]

\* bincode::serialize: the fields in order, a byte vector or string as its
\* length followed by its bytes; the message as a whole has no length in front
serialize(m) == <<m.tag, Len(m.body)>> \o m.body

\* bincode::deserialize: an error when the bytes end before the fields do;
\* bytes after the last field are ignored
deserialize(b) ==
    IF Len(b) < 2 \/ Len(b) - 2 < b[2]
    THEN [ok |-> FALSE, msg |-> <<>>]
    ELSE [ok |-> TRUE, msg |-> [tag |-> b[1], body |-> SubSeq(b, 3, 2 + b[2])]]

\* the sender has the message serialized and the stream open
wire_serialize(m) ==
    /\ wire.pc = "idle"
    /\ wire' = [NoWire EXCEPT !.pc = "write", !.msg = m, !.out = serialize(m)]
    /\ UNCHANGED <<applied, storeVars, config, handlerVars, workerVars, pool, callVars, ret, reply, sapiGlobals, captureVars>>

\* write_all: one write call, of which the stream takes k bytes
wire_write(k) ==
    /\ wire.pc = "write"
    /\ k \in 1..Len(wire.out)
    /\ wire' = [wire EXCEPT !.sock = @ \o SubSeq(wire.out, 1, k),
                            !.out = SubSeq(wire.out, k + 1, Len(wire.out))]
    /\ UNCHANGED <<applied, storeVars, config, handlerVars, workerVars, pool, callVars, ret, reply, sapiGlobals, captureVars>>

\* stream.read(&mut buffer) then deserialize(&buffer[..bytes_read]): read
\* returns as soon as the stream holds a byte, with the bytes it holds that
\* fit the buffer
wire_read ==
    /\ wire.pc = "write"
    /\ wire.sock # <<>>
    /\ LET bytes_read == IF Len(wire.sock) < BufferSize THEN Len(wire.sock) ELSE BufferSize
       IN  wire' = [wire EXCEPT !.pc = "done",
                                !.got = deserialize(SubSeq(wire.sock, 1, bytes_read)),
                                !.sock = SubSeq(wire.sock, bytes_read + 1, Len(wire.sock))]
    /\ UNCHANGED <<applied, storeVars, config, handlerVars, workerVars, pool, callVars, ret, reply, sapiGlobals, captureVars>>

\* the next message, on a new stream
wire_close ==
    /\ wire.pc = "done"
    /\ wire' = NoWire
    /\ UNCHANGED <<applied, storeVars, config, handlerVars, workerVars, pool, callVars, ret, reply, sapiGlobals, captureVars>>

InitWire ==
    /\ config = [enable |-> TRUE, mode |-> "Socket", feature |-> FALSE]
    /\ pool = NewPool
    /\ InitCommon

NextWire ==
    \/ \E m \in Messages : wire_serialize(m)
    \/ \E k \in 1..(MaxMsg + 2) : wire_write(k)
    \/ wire_read
    \/ wire_close

SpecWire == InitWire /\ [][NextWire]_vars

\* C22: a message that was serialized, sent through the stream and
\* deserialized by the receiver is reproduced field by field, whatever its
\* size (longer than the receiver's buffer included) and in however many
\* pieces the stream delivered it.
C22_RoundTripAnySize ==
    wire.pc = "done" => wire.got = [ok |-> TRUE, msg |-> wire.msg]

\* what does hold: a message that fits the buffer and was in the stream as
\* a whole when the receiver read is reproduced
WholeMessageRead ==
    (wire.pc = "done" /\ wire.out = <<>> /\ wire.sock = <<>>) => wire.got = [ok |-> TRUE, msg |-> wire.msg]


\* C23: a connection whose bytes do not deserialize to a request is answered
\* with the error response (success false, status 500, error text "Invalid
\* request ..."), and no step of its thread changes the pool: no worker's
\* busy flag, not the pending queue, not the lock.
C23_InvalidRequestRejected ==
    [][\A t \in Conns :
          (conn[t].pc # conn'[t].pc
           /\ "Invalid" \in {conn[t].request.request_type, conn'[t].request.request_type})
          => /\ wpool' = wpool
             /\ conn'[t].pc \in {"send", "closed", "idle"}
             /\ conn'[t].pc \in {"send", "closed"}
                => /\ ~conn'[t].response.success
                   /\ conn'[t].response.status_code = 500
                   /\ conn'[t].response.error = "Invalid request"
                   /\ ~conn'[t].response.queued]_vars
\* an undecodable request was answered while another request's script runs
C23_Witness ==
    \E t, u \in Conns :
        /\ conn[t].request.request_type = "Invalid" /\ conn[t].pc = "closed" /\ conn[t].writes = 1
        /\ conn[u].pc = "run"


\* C24: a HealthCheck request is answered with the fixed success response
\* (success, status 200, body "healthy"); its thread never waits for or
\* holds the pool's lock and none of its steps changes a worker's busy flag
\* or the pending queue; the answer does not wait for an Execute request
\* that is being run: reading it takes one step whoever holds the lock.
C24_HealthCheckWithoutPool ==
    /\ [][\A t \in Conns :
            (conn[t].pc # conn'[t].pc
             /\ "HealthCheck" \in {conn[t].request.request_type, conn'[t].request.request_type})
            => /\ wpool' = wpool
               /\ conn'[t].pc \in {"send", "closed", "idle"}
               /\ conn'[t].pc \in {"send", "closed"}
                  => /\ conn'[t].response.success
                     /\ conn'[t].response.status_code = 200
                     /\ conn'[t].response.body = "healthy"
                     /\ ~conn'[t].response.queued]_vars
    /\ [](\A t \in Conns :
            conn[t].request.request_type = "HealthCheck" => wpool.lock # t /\ conn[t].pc # "lock")
    /\ [](\A t \in Conns :
            (conn[t].pc = "idle" /\ wpool.pc = "listening")
            => ENABLED read_request(t, [request_type |-> "HealthCheck", script_path |-> 1,
                                        server_vars |-> {}]))
\* a health check was answered while another thread runs a script under the lock
C24_Witness ==
    \E t, u \in Conns :
        /\ conn[t].request.request_type = "HealthCheck" /\ conn[t].pc = "closed" /\ conn[t].writes = 1
        /\ conn[u].pc = "run" /\ wpool.lock = u


\* the report of the Status response a thread got in this step (the code
\* passes it as the second argument of PhpResponse::ok, the stderr field)
StatusAnswered(t) ==
    conn[t].pc = "lock" /\ conn[t].request.request_type = "Status" /\ conn'[t].pc = "send"

\* C25: the report of a Status request agrees with the pool at that moment:
\* busy plus available is the number of workers, queued is the length of
\* the pending queue, and the report names the resolved interpreter binary.
C25_StatusReport ==
    [][\A t \in Conns :
          StatusAnswered(t)
          => LET report == conn'[t].response.stderr
             IN  /\ report.busy + report.available = report.total_workers
                 /\ report.total_workers = Len(wpool.workers)
                 /\ report.queued = Len(wpool.request_queue)
                 /\ "php_binary" \in DOMAIN report]_vars

\* what does hold: the four totals agree with the pool
StatusTotalsConsistent ==
    [][\A t \in Conns :
          StatusAnswered(t)
          => LET report == conn'[t].response.stderr
             IN  /\ conn'[t].response.success /\ conn'[t].response.status_code = 200
                 /\ report.busy = Cardinality({i \in DOMAIN wpool.workers : wpool.workers[i].busy})
                 /\ report.busy + report.available = report.total_workers
                 /\ report.total_workers = Len(wpool.workers)
                 /\ report.queued = Len(wpool.request_queue)
                 /\ DOMAIN report = {"total_workers", "busy", "available", "queued"}]_vars


\* C26: in socket mode an execute call does not run the script in an
\* interpreter process spawned by the server itself: no task of a pool in
\* socket mode has a child process (the call goes through a connection to
\* the configured socket: one request written, one response read).
C26_SocketModeNoLocalProcess ==
    config.mode = "Socket" => \A c \in Callers : child[c].st = "none"


(***************************************************************************)
(* vephp: the headers of a protocol PhpResponse, a HashMap<String, String> *)
(* filled by with_header and serialized with the message.                  *)
(***************************************************************************)
\* the most headers a script emits
MaxEmitted == 3
EmittedNames == {"Set-Cookie", "X-Id"}
EmittedValues == {"a=1", "b=2", "c=3"}

\* HashMap::insert on a map kept as its set of (key, value) entries
insert(map, key, value) == {e \in map : e[1] # key} \cup {<<key, value>>}

\* PhpResponse::with_header
with_header(response, key, value) ==
    [response EXCEPT !.headers = insert(@, key, value)]

\* the orders in which iterating a HashMap can yield its entries
iter(map) ==
    {s \in [1..Cardinality(map) -> map] : \A i, j \in 1..Cardinality(map) : i # j => s[i] # s[j]}

\* PhpResponse::ok(..), before any header
response_new ==
    /\ applied.f # "with_header"
    /\ applied' = [f |-> "with_header", emitted |-> <<>>, response |-> [headers |-> {}], listed |-> <<>>]
    /\ UNCHANGED <<wire, storeVars, config, handlerVars, workerVars, pool, callVars, ret, reply, sapiGlobals, captureVars>>

\* the script emitted one more header, which with_header adds to the response
response_with_header(key, value) ==
    /\ applied.f = "with_header"
    /\ Len(applied.emitted) < MaxEmitted
    /\ applied' = [applied EXCEPT !.emitted = Append(@, <<key, value>>),
                                  !.response = with_header(@, key, value)]
    /\ UNCHANGED <<wire, storeVars, config, handlerVars, workerVars, pool, callVars, ret, reply, sapiGlobals, captureVars>>

\* send_response: bincode::serialize writes the map's entries as the map yields them
response_serialize ==
    /\ applied.f = "with_header"
    /\ \E order \in iter(applied.response.headers) :
          applied' = [applied EXCEPT !.f = "serialized", !.listed = order]
    /\ UNCHANGED <<wire, storeVars, config, handlerVars, workerVars, pool, callVars, ret, reply, sapiGlobals, captureVars>>

InitMessage == InitWire

NextMessage ==
    \/ response_new
    \/ \E key \in EmittedNames, value \in EmittedValues : response_with_header(key, value)
    \/ response_serialize

SpecMessage == InitMessage /\ [][NextMessage]_vars

\* C27: the headers of a response are an ordered list in which duplicates
\* survive: the Response message built with with_header carries every
\* header the script emitted, two of the same name included, in the order
\* of emission.
C27_HeadersOrderedWithDuplicates ==
    applied.f = "serialized" => applied.listed = applied.emitted

\* what does hold: the message carries one entry for each emitted name, with
\* the value emitted last under that name
LastValueWins ==
    applied.f \in {"with_header", "serialized"} =>
        /\ \A i \in DOMAIN applied.emitted :
              \E e \in applied.response.headers :
                  /\ e[1] = applied.emitted[i][1]
                  /\ \/ e[2] = applied.emitted[i][2]
                     \/ \E j \in (i + 1)..Len(applied.emitted) :
                           applied.emitted[j] = e
        /\ \A e, g \in applied.response.headers : e[1] = g[1] => e = g


(***************************************************************************)
(* The environment builders of php/mod.rs: the variables a script is       *)
(* given, from the request's metadata, the script, the document root, the  *)
(* script name and the path info.  A mapping is the set of its (name,      *)
(* value) entries; texts the builders take apart are sequences of          *)
(* characters.                                                             *)
(***************************************************************************)
\* the longest Host header
MaxHost == 3
\* "0xFF" is the byte 255, which is not visible ASCII
HostChars == {"a", ":", "8", "0xFF"}
Hosts == UNION {[1..n -> HostChars] : n \in 0..MaxHost}

\* str::split(ch)
RECURSIVE split(_, _)
split(str, ch) ==
    LET i == find(str, <<ch>>)
    IN  IF i = 0 THEN <<str>>
        ELSE <<SubSeq(str, 1, i - 1)>> \o split(SubSeq(str, i + 1, Len(str)), ch)

\* HeaderValue::to_str().is_ok(): every byte is visible ASCII
to_str_ok(value) == \A i \in DOMAIN value : value[i] # "0xFF"

\* HeaderMap::get(name): the first value of that name, as a set of at most one
get(headers, name) ==
    LET at == {i \in DOMAIN headers : headers[i][1] = name}
    IN  IF at = {} THEN {} ELSE {headers[CHOOSE i \in at : \A j \in at : i <= j][2]}

\* Uri::query().unwrap_or("")
query(uri) ==
    LET q == find(uri, <<"?">>)
    IN  IF q = 0 THEN <<>> ELSE SubSeq(uri, q + 1, Len(uri))

\* Path::join of a relative path
join(base, rel) == base \o <<"/">> \o rel

\* format!("HTTP_{}", name.to_uppercase().replace('-', "_"))
env_name(name) ==
    CASE name = "host" -> "HTTP_HOST"
      [] name = "x-id" -> "HTTP_X_ID"
      [] name = "content-type" -> "HTTP_CONTENT_TYPE"
      [] name = "content-length" -> "HTTP_CONTENT_LENGTH"

\* usize::to_string
to_string(n) == <<<<"0", "1", "2", "3", "4", "5", "6", "7", "8", "9">>[n + 1]>>

\* the values a mapping has for a name: none or one
Values(env, name) == {e[2] : e \in {g \in env : g[1] = name}}

\* the loop over the headers that inserts the HTTP_* variables
RECURSIVE http_vars(_, _)
http_vars(env, headers) ==
    IF headers = <<>> THEN env
    ELSE LET name == Head(headers)[1]
             value == Head(headers)[2]
         IN  http_vars(IF name \in {"content-type", "content-length"} \/ ~to_str_ok(value)
                       THEN env
                       ELSE insert(env, env_name(name), value),
                       Tail(headers))

\* build_cgi_env_from_parts
build_cgi_env_from_parts(parts, script_path, doc_root, script_name, path_info) ==
    LET standard ==
            insert(insert(insert(insert(insert(insert(insert(insert(insert({},
                "GATEWAY_INTERFACE", "CGI/1.1"),
                "SERVER_PROTOCOL", parts.version),
                "SERVER_SOFTWARE", "VeloServe/VERSION"),
                "REQUEST_METHOD", parts.method),
                "REQUEST_URI", parts.uri),
                "SCRIPT_NAME", script_name),
                "SCRIPT_FILENAME", script_path),
                "DOCUMENT_ROOT", doc_root),
                "QUERY_STRING", query(parts.uri))
        withPathInfo ==
            IF path_info # <<>>
            THEN insert(insert(standard, "PATH_INFO", path_info),
                        "PATH_TRANSLATED", join(doc_root, trim_start(path_info, {"/"})))
            ELSE standard
        host == get(parts.headers, "host")
        withServer ==
            IF host # {}
            THEN LET host_str == CHOOSE h \in host : TRUE
                     host_parts == split(host_str, ":")
                 IN  IF to_str_ok(host_str)
                     THEN insert(insert(insert(withPathInfo,
                              "SERVER_NAME", host_parts[1]),
                              "HTTP_HOST", host_str),
                              "SERVER_PORT", IF Len(host_parts) > 1 THEN host_parts[2] ELSE <<"8", "0">>)
                     ELSE withPathInfo
            ELSE insert(insert(withPathInfo, "SERVER_NAME", <<"l", "o", "c", "a", "l", "h", "o", "s", "t">>),
                        "SERVER_PORT", <<"8", "0">>)
        ct == get(parts.headers, "content-type")
        withType ==
            IF ct # {} /\ \A v \in ct : to_str_ok(v)
            THEN insert(withServer, "CONTENT_TYPE", CHOOSE v \in ct : TRUE) ELSE withServer
        cl == get(parts.headers, "content-length")
        withLength ==
            IF cl # {} /\ \A v \in cl : to_str_ok(v)
            THEN insert(withType, "CONTENT_LENGTH", CHOOSE v \in cl : TRUE) ELSE withType
        withHttp == http_vars(withLength, parts.headers)
    IN  insert(insert(insert(insert(insert(withHttp,
            "REDIRECT_STATUS", "200"),
            "PHP_SELF", script_name),
            "HTTPS", "off"),
            "REMOTE_ADDR", "127.0.0.1"),
            "REMOTE_PORT", "0")

\* a builder that leaves SERVER_PORT out when the Host header names no port
build_cgi_env_no_default_port(req, script_path, doc_root, script_name, path_info) ==
    LET env == build_cgi_env_from_parts(req, script_path, doc_root, script_name, path_info)
    IN  {e \in env : ~(e[1] = "SERVER_PORT" /\ e[2] = <<"8", "0">>)}

\* build_cgi_env
build_cgi_env(req, script_path, doc_root, script_name, path_info) ==
    LET standard ==
            insert(insert(insert(insert(insert(insert(insert(insert(insert({},
                "GATEWAY_INTERFACE", "CGI/1.1"),
                "SERVER_PROTOCOL", req.version),
                "SERVER_SOFTWARE", "VeloServe/VERSION"),
                "REQUEST_METHOD", req.method),
                "REQUEST_URI", req.uri),
                "SCRIPT_NAME", script_name),
                "SCRIPT_FILENAME", script_path),
                "DOCUMENT_ROOT", doc_root),
                "QUERY_STRING", query(req.uri))
        withPathInfo ==
            IF path_info # <<>>
            THEN insert(insert(standard, "PATH_INFO", path_info),
                        "PATH_TRANSLATED", join(doc_root, trim_start(path_info, {"/"})))
            ELSE standard
        host == get(req.headers, "host")
        withServer ==
            IF host # {}
            THEN LET host_str == CHOOSE h \in host : TRUE
                     parts == split(host_str, ":")
                 IN  IF to_str_ok(host_str)
                     THEN insert(insert(insert(withPathInfo,
                              "SERVER_NAME", parts[1]),
                              "HTTP_HOST", host_str),
                              "SERVER_PORT", IF Len(parts) > 1 THEN parts[2] ELSE <<"8", "0">>)
                     ELSE withPathInfo
            ELSE insert(insert(withPathInfo, "SERVER_NAME", <<"l", "o", "c", "a", "l", "h", "o", "s", "t">>),
                        "SERVER_PORT", <<"8", "0">>)
        ct == get(req.headers, "content-type")
        withType ==
            IF ct # {} /\ \A v \in ct : to_str_ok(v)
            THEN insert(withServer, "CONTENT_TYPE", CHOOSE v \in ct : TRUE) ELSE withServer
        cl == get(req.headers, "content-length")
        withLength ==
            IF cl # {} /\ \A v \in cl : to_str_ok(v)
            THEN insert(withType, "CONTENT_LENGTH", CHOOSE v \in cl : TRUE) ELSE withType
        withHttp == http_vars(withLength, req.headers)
    IN  insert(insert(insert(insert(insert(withHttp,
            "REDIRECT_STATUS", "200"),
            "PHP_SELF", script_name),
            "HTTPS", "off"),
            "REMOTE_ADDR", "127.0.0.1"),
            "REMOTE_PORT", "0")

\* env.insert("CONTENT_LENGTH", body.len().to_string()) when the body is not empty
with_body_length(env, body) ==
    IF body # 0 THEN insert(env, "CONTENT_LENGTH", to_string(body)) ELSE env

\* the arguments of one execution: the request's metadata, the script,
\* the document root, the script name, the path info and the body's length
ScriptPath == <<"/", "s", "/", "i", ".", "p", "h", "p">>
DocRoot == <<"/", "s">>
ScriptName == <<"/", "i", ".", "p", "h", "p">>
Uris == {ScriptName, ScriptName \o <<"?", "q">>}
PathInfos == {<<>>, <<"/", "b">>}
OtherHeaders ==
    {<<>>, <<<<"content-type", <<"t">>>>, <<"content-length", <<"9">>>>, <<"x-id", <<"v">>>>>>}
\* RequestHandler::handle reads a body for POST and PUT only
MethodsAndBodies == {<<"GET", 0>>, <<"POST", 0>>, <<"POST", MaxBody>>}
Metadata ==
    {[version |-> "HTTP/1.1", method |-> m, uri |-> u, headers |-> h \o o] :
        m \in {"GET", "POST"}, u \in Uris,
        h \in {<<>>} \cup {<<<<"host", v>>>> : v \in Hosts}, o \in OtherHeaders}

\* what do_execute_with_body passes to cmd.envs
execute_with_body_env(req, path_info, body) ==
    with_body_length(build_cgi_env(req, ScriptPath, DocRoot, ScriptName, path_info), body)
\* what do_execute_cgi passes to cmd.envs
execute_cgi_env(parts, path_info, body) ==
    with_body_length(build_cgi_env_from_parts(parts, ScriptPath, DocRoot, ScriptName, path_info), body)
\* what execute_embed passes to PhpSapi::execute_script as server_vars
execute_embed_env(parts, path_info, body) ==
    with_body_length(build_cgi_env_from_parts(parts, ScriptPath, DocRoot, ScriptName, path_info), body)

Executed(f, parts, path_info, body, env) ==
    /\ applied' = [f |-> f, parts |-> parts, path_info |-> path_info, body |-> body, env |-> env]
    /\ UNCHANGED <<wire, storeVars, config, handlerVars, workerVars, pool, callVars, ret, reply, sapiGlobals, captureVars>>

do_execute_with_body(req, path_info, body) ==
    /\ applied.f = "none"
    /\ Executed("execute_with_body", req, path_info, body, execute_with_body_env(req, path_info, body))
do_execute_cgi(parts, path_info, body) ==
    /\ applied.f = "none"
    /\ Executed("execute_cgi", parts, path_info, body, execute_cgi_env(parts, path_info, body))
execute_embed_vars(parts, path_info, body) ==
    /\ applied.f = "none"
    /\ Executed("execute_embed", parts, path_info, body, execute_embed_env(parts, path_info, body))
\* the execution is over
execute_end ==
    /\ applied.f \in {"execute_with_body", "execute_cgi", "execute_embed"}
    /\ applied' = NoApplied
    /\ UNCHANGED <<wire, storeVars, config, handlerVars, workerVars, pool, callVars, ret, reply, sapiGlobals, captureVars>>

InitEnv == InitWire

NextEnv ==
    \/ \E req \in Metadata, path_info \in PathInfos, body \in Bodies :
          <<req.method, body>> \in MethodsAndBodies /\ do_execute_with_body(req, path_info, body)
    \/ \E parts \in Metadata, path_info \in PathInfos, body \in Bodies :
          <<parts.method, body>> \in MethodsAndBodies /\ do_execute_cgi(parts, path_info, body)
    \/ \E parts \in Metadata, path_info \in PathInfos, body \in Bodies :
          <<parts.method, body>> \in MethodsAndBodies /\ execute_embed_vars(parts, path_info, body)
    \/ execute_end

SpecEnv == InitEnv /\ [][NextEnv]_vars

\* the Host header of the last execution: none or one value
HostOf == get(applied.parts.headers, "host")

\* C28: SERVER_NAME and SERVER_PORT come from the Host header split at its
\* first colon, the name before it and the port everything after it; the
\* port is 80 when the header has no colon; without the header the name is
\* localhost and the port 80.
C28_HostSplitAtFirstColon ==
    applied.f # "none" =>
        IF HostOf = {}
        THEN /\ Values(applied.env, "SERVER_NAME") = {<<"l", "o", "c", "a", "l", "h", "o", "s", "t">>}
             /\ Values(applied.env, "SERVER_PORT") = {<<"8", "0">>}
        ELSE \A host \in HostOf :
                LET c == FirstColon(host)
                IN  IF c = 0
                    THEN /\ Values(applied.env, "SERVER_NAME") = {host}
                         /\ Values(applied.env, "SERVER_PORT") = {<<"8", "0">>}
                    ELSE /\ Values(applied.env, "SERVER_NAME") = {SubSeq(host, 1, c - 1)}
                         /\ Values(applied.env, "SERVER_PORT") = {SubSeq(host, c + 1, Len(host))}

\* what does hold: the port is the text between the first and the second
\* colon, and a Host header that is not visible ASCII gives no name and no port
HostSplitAtEveryColon ==
    applied.f # "none" =>
        IF HostOf = {}
        THEN /\ Values(applied.env, "SERVER_NAME") = {<<"l", "o", "c", "a", "l", "h", "o", "s", "t">>}
             /\ Values(applied.env, "SERVER_PORT") = {<<"8", "0">>}
        ELSE \A host \in HostOf :
                LET c == FirstColon(host)
                    rest == SubSeq(host, c + 1, Len(host))
                    d == FirstColon(rest)
                IN  IF ~to_str_ok(host)
                    THEN Values(applied.env, "SERVER_NAME") = {} /\ Values(applied.env, "SERVER_PORT") = {}
                    ELSE IF c = 0
                    THEN /\ Values(applied.env, "SERVER_NAME") = {host}
                         /\ Values(applied.env, "SERVER_PORT") = {<<"8", "0">>}
                    ELSE /\ Values(applied.env, "SERVER_NAME") = {SubSeq(host, 1, c - 1)}
                         /\ Values(applied.env, "SERVER_PORT") =
                                {IF d = 0 THEN rest ELSE SubSeq(rest, 1, d - 1)}


\* the arguments of the last execution, given to the two builders
FromRequest == build_cgi_env(applied.parts, ScriptPath, DocRoot, ScriptName, applied.path_info)
FromParts == build_cgi_env_from_parts(applied.parts, ScriptPath, DocRoot, ScriptName, applied.path_info)

\* C30: for the same request metadata, script, document root, script name
\* and path info the two builders give the same mapping, and each of
\* execute_with_body, execute_cgi and execute_embed hands the script that
\* mapping, its CONTENT_LENGTH replaced by the length of the body when the
\* body is not empty.
C30_SameEnvironmentEveryStrategy ==
    applied.f \in {"execute_with_body", "execute_cgi", "execute_embed"} =>
        /\ FromRequest = FromParts
        /\ applied.env =
              IF applied.body = 0 THEN FromParts
              ELSE {e \in FromParts : e[1] # "CONTENT_LENGTH"}
                      \cup {<<"CONTENT_LENGTH", to_string(applied.body)>>}
        /\ execute_with_body_env(applied.parts, applied.path_info, applied.body) = applied.env
        /\ execute_cgi_env(applied.parts, applied.path_info, applied.body) = applied.env
        /\ execute_embed_env(applied.parts, applied.path_info, applied.body) = applied.env
\* an execution with a body, a declared Content-Length other than the
\* body's length, a path info and a Host header with a port
C30_Witness ==
    /\ applied.f = "execute_embed"
    /\ applied.body = MaxBody
    /\ applied.path_info # <<>>
    /\ Values(applied.env, "CONTENT_LENGTH") = {to_string(MaxBody)}
    /\ get(applied.parts.headers, "content-length") = {<<"9">>}
    /\ Values(applied.env, "SERVER_PORT") = {<<"8">>}


(***************************************************************************)
(* RequestHandler::handle, steps 1 to 3: the request path as a file, as a  *)
(* directory, and as a PHP file followed by path info.  A request path is  *)
(* a sequence of characters, a file-system path the sequence of its        *)
(* components, the document root's files the set of their paths under it.  *)
(***************************************************************************)
\* the most segments of a request path
MaxSegments == 3
PhpFile == <<"i", ".", "p", "h", "p">>
\* a segment: empty, i.php, b, b with a percent escape, the current and the parent directory
Segments == {<<>>, PhpFile, <<"b">>, <<"%", "6", "2">>, <<".">>, <<".", ".">>}
RECURSIVE concat(_)
concat(segments) ==
    IF segments = <<>> THEN <<>> ELSE <<"/">> \o Head(segments) \o concat(Tail(segments))
UriPaths == {concat(s) : s \in UNION {[1..n -> Segments] : n \in 1..MaxSegments}}
\* what the document root /s may hold: i.php, and i.php in the directory b
FileSystems == SUBSET {<<PhpFile>>, <<<<"b">>, PhpFile>>}
DocRootComponents == <<<<"s">>>>

\* str::contains(pat)
contains(str, pat) == find(str, pat) # 0

\* percent_decode_str(..).decode_utf8_lossy(), for the escape of the letter b
RECURSIVE percent_decode(_)
percent_decode(str) ==
    IF str = <<>> THEN <<>>
    ELSE IF starts_with(str, <<"%", "6", "2">>)
         THEN <<"b">> \o percent_decode(SubSeq(str, 4, Len(str)))
         ELSE <<Head(str)>> \o percent_decode(Tail(str))

\* resolve_path: the leading slashes trimmed, the escapes decoded, then the
\* components of the path (Path::components skips the empty ones and the
\* "." ones) without the ParentDir ones, under the document root
resolve_path(doc_root, path) ==
    doc_root \o SelectSeq(split(percent_decode(trim_start(path, {"/"})), "/"),
                          LAMBDA c : c \notin {<<>>, <<".">>, <<".", ".">>})

\* Path::is_file, Path::is_dir
is_file(files, path) == \E f \in files : path = DocRootComponents \o f
is_dir(files, path) ==
    \/ path = DocRootComponents
    \/ \E f \in files : Len(path) < Len(DocRootComponents \o f)
                        /\ SubSeq(DocRootComponents \o f, 1, Len(path)) = path

\* is_php_file: the extension of the last component, in lower case, is php
is_php_file(path) ==
    /\ path # <<>>
    /\ LET name == path[Len(path)]
           dots == {i \in DOMAIN name : name[i] = "."}
       IN  /\ name # <<".", ".">>
           /\ dots # {} /\ dots # {1}
           /\ LET last == CHOOSE i \in dots : \A j \in dots : j <= i
              IN  SubSeq(name, last + 1, Len(name)) = <<"p", "h", "p">>

\* the parts one after the other, with nothing between them
RECURSIVE join_without_separator(_)
join_without_separator(parts) ==
    IF parts = <<>> THEN <<>> ELSE Head(parts) \o join_without_separator(Tail(parts))

\* parts[i + 1..].join("/")
RECURSIVE join_parts(_)
join_parts(parts) ==
    IF parts = <<>> THEN <<>>
    ELSE IF Len(parts) = 1 THEN parts[1]
    ELSE parts[1] \o <<"/">> \o join_parts(Tail(parts))

NoPathInfo == [found |-> FALSE, script_filename |-> <<>>, script_name |-> <<>>, path_info |-> <<>>]

\* the loop of resolve_php_path_info from part i on
RECURSIVE path_info_from(_, _, _, _)
path_info_from(files, parts, i, accumulated) ==
    IF i > Len(parts) THEN NoPathInfo
    ELSE LET part == parts[i]
             accumulated_path == IF part # <<>> THEN accumulated \o <<"/">> \o part ELSE accumulated
             script_path == resolve_path(DocRootComponents, accumulated_path)
         IN  IF contains(part, <<".", "p", "h", "p">>) /\ is_file(files, script_path) /\ is_php_file(script_path)
             THEN [found |-> TRUE, script_filename |-> script_path, script_name |-> accumulated_path,
                   path_info |-> IF i + 1 <= Len(parts)
                                 THEN <<"/">> \o join_parts(SubSeq(parts, i + 1, Len(parts)))
                                 ELSE <<>>]
             ELSE path_info_from(files, parts, i + 1, accumulated_path)

\* resolve_php_path_info
resolve_php_path_info(files, uri_path) == path_info_from(files, split(uri_path, "/"), 1, <<>>)

\* handle, steps 1 to 3, for a request path and the files under the document root
handle(files, path) ==
    /\ applied.f = "none"
    /\ LET file_path == resolve_path(DocRootComponents, path)
           php_info == resolve_php_path_info(files, path)
       IN  applied' = [f |-> "handle", path |-> path, files |-> files,
                       step |-> IF is_file(files, file_path) THEN 1
                                ELSE IF is_dir(files, file_path) THEN 2
                                ELSE IF php_info.found THEN 3 ELSE 4,
                       php_info |-> php_info]
    /\ UNCHANGED <<wire, storeVars, config, handlerVars, workerVars, pool, callVars, ret, reply, sapiGlobals, captureVars>>

\* the response is sent
handle_end ==
    /\ applied.f = "handle"
    /\ applied' = NoApplied
    /\ UNCHANGED <<wire, storeVars, config, handlerVars, workerVars, pool, callVars, ret, reply, sapiGlobals, captureVars>>

InitRoute == InitWire

NextRoute ==
    \/ \E files \in FileSystems, path \in UriPaths : handle(files, path)
    \/ handle_end

SpecRoute == InitRoute /\ [][NextRoute]_vars

\* a file-system path as text
PathText(path) == concat(path)

\* C29: when the leading segments of the request path name an existing
\* .php file under the document root, the script filename is the document
\* root joined with those segments, the script name is those segments and
\* the path info the remaining ones, so that the script name followed by
\* the path info is the request path.
C29_PathInfoSplitsThePath ==
    (applied.f = "handle" /\ applied.step = 3) =>
        /\ applied.php_info.script_name \o applied.php_info.path_info = applied.path
        /\ PathText(applied.php_info.script_filename) = DocRoot \o applied.php_info.script_name
        /\ is_file(applied.files, applied.php_info.script_filename)

\* the request path up to the path info (the path info is its end)
Leading == SubSeq(applied.path, 1, Len(applied.path) - Len(applied.php_info.path_info))
\* the segments of a path are names: not empty, not "." or "..", no percent escape
PlainSegments(path) ==
    \A i \in 2..Len(split(path, "/")) :
        LET segment == split(path, "/")[i]
        IN  segment \notin {<<>>, <<".">>, <<".", ".">>} /\ ~contains(segment, <<"%">>)

\* C29 as amended: the script found is an existing .php file and the path
\* info is the end of the request path; when the segments before the path
\* info are names, the script name is those segments, the script filename
\* the document root joined with them, and the script name followed by the
\* path info is the request path.
C29_PathInfoOfPlainSegments ==
    (applied.f = "handle" /\ applied.step = 3) =>
        /\ is_file(applied.files, applied.php_info.script_filename)
        /\ is_php_file(applied.php_info.script_filename)
        /\ LET n == Len(applied.path)
               k == Len(applied.php_info.path_info)
           IN  k <= n /\ SubSeq(applied.path, n - k + 1, n) = applied.php_info.path_info
        /\ PlainSegments(Leading) =>
              /\ applied.php_info.script_name = Leading
              /\ applied.php_info.script_name \o applied.php_info.path_info = applied.path
              /\ PathText(applied.php_info.script_filename) = DocRoot \o applied.php_info.script_name
\* /b/i.php/b under a document root that holds b/i.php: path info /b
C29_Witness ==
    /\ applied.f = "handle" /\ applied.step = 3
    /\ PlainSegments(Leading)
    /\ applied.php_info.script_name = <<"/", "b", "/", "i", ".", "p", "h", "p">>
    /\ applied.php_info.path_info = <<"/", "b">>


\* the first blank line of the output, whichever line ending it has:
\* where it starts and how long it is
FirstBlankLine(output) ==
    LET crlf == find(output, <<"\r", "\n", "\r", "\n">>)
        lf == find(output, <<"\n", "\n">>)
    IN  IF crlf # 0 /\ (lf = 0 \/ crlf < lf) THEN [pos |-> crlf, len |-> 4]
        ELSE [pos |-> lf, len |-> 2]

\* the output of a served spawn-mode request was split into headers and body
HeaderBlockAccepted == cgi.st = "served" /\ http.kind = "response" /\ http.body # cgi.stdout

\* the first line of the output looks like a header
FirstLineIsHeader ==
    LET first_line == IF lines(cgi.stdout) = <<>> THEN <<>> ELSE Head(lines(cgi.stdout))
    IN  /\ FirstColon(first_line) # 0
        /\ Head(first_line) # "<"
        /\ \A i \in DOMAIN first_line : first_line[i] # "{"
        /\ \A i \in 1..(FirstColon(first_line) - 1) : IsNameChar(first_line[i])

\* a header block is accepted only for a first line that looks like a header,
\* and without one the whole output is the body of a 200 response
C31_OnlyForHeaderLines ==
    /\ HeaderBlockAccepted => FirstLineIsHeader
    /\ (cgi.st = "served" /\ http.kind = "response" /\ ~HeaderBlockAccepted) =>
           http.status = 200 /\ http.body = cgi.stdout

\* C31: the spawn-strategy response parser splits the output into headers and
\* body only when the first line contains a colon, does not start with '<',
\* contains no '{' and has a name of alphanumerics, '-' and '_'; otherwise
\* the whole output is the body of a 200 response; and the body of a split
\* output is exactly the text after the first blank line
C31_HeaderBlockHeuristic ==
    /\ C31_OnlyForHeaderLines
    /\ HeaderBlockAccepted =>
           LET sep == FirstBlankLine(cgi.stdout)
           IN  http.body = SubSeq(cgi.stdout, sep.pos + sep.len, Len(cgi.stdout))

\* a split output whose body is the text after its first blank line
C31_BodyAfterFirstBlankLine ==
    /\ HeaderBlockAccepted
    /\ http.body = <<"b">>


(***************************************************************************)
(* The response cache: CacheManager.                                       *)
(***************************************************************************)
\* caps on the lists of the tag index and on the byte counter
MaxIndex == 2
MaxSizeBytes == 5
\* what set is called with
CacheData == {<<1>>, <<2, 3>>}
TagLists == {<<>>, <<"a">>, <<"a", "b">>}

\* Option<Vec<u8>>
NoData == [some |-> FALSE, data |-> <<>>]
SomeData(data) == [some |-> TRUE, data |-> data]

\* CacheEntry::is_expired
is_expired(entry, now) == now - entry.created_at > entry.ttl

\* Vec::retain(|k| k != key), LruCache::pop
without(keys, key) == SelectSeq(keys, LAMBDA k : k # key)

\* CacheManager::remove
remove(m, key) ==
    LET entry == m.memory_cache[key]
    IN  IF entry.stored
        THEN [m EXCEPT !.memory_cache[key] = NoEntry,
                       !.size_bytes = @ - Len(entry.data),
                       !.tag_index = [t \in CacheTags |->
                            IF \E i \in DOMAIN entry.tags : entry.tags[i] = t
                            THEN without(@[t], key) ELSE @[t]],
                       !.lru = without(@, key)]
        ELSE [m EXCEPT !.lru = without(@, key)]

\* CacheManager::evict_lru: down to 80% of the limit, least recently used first
RECURSIVE evict_lru(_)
evict_lru(m) ==
    IF m.size_bytes > (m.max_memory * 8) \div 10 /\ m.lru # <<>>
    THEN evict_lru(remove(m, Head(m.lru)))
    ELSE m

\* DashMap::insert, and an insert that keeps the entry a key already has
insert_if_absent(map, key, entry) == IF map[key].stored THEN map ELSE [map EXCEPT ![key] = entry]

memory_cache_insert(map, key, entry) == [map EXCEPT ![key] = entry]

\* CacheManager::set_with_ttl
set_with_ttl(m, key, data, tags, ttl) ==
    IF ~m.enable THEN m
    ELSE LET m1 == IF m.size_bytes + Len(data) > m.max_memory THEN evict_lru(m) ELSE m
             entry == [stored |-> TRUE, data |-> data, tags |-> tags, created_at |-> m.now, ttl |-> ttl]
         IN  [m1 EXCEPT !.memory_cache = memory_cache_insert(@, key, entry),
                        !.lru = Append(without(@, key), key),
                        !.tag_index = [t \in CacheTags |->
                             IF \E i \in DOMAIN tags : tags[i] = t THEN Append(@[t], key) ELSE @[t]],
                        !.size_bytes = @ + Len(data)]

\* CacheManager::get: the manager afterwards and what is returned
CacheManager_get(m, key) ==
    LET entry == m.memory_cache[key]
    IN  IF ~m.enable \/ ~entry.stored THEN [manager |-> m, result |-> NoData]
        ELSE IF is_expired(entry, m.now) THEN [manager |-> remove(m, key), result |-> NoData]
        ELSE [manager |-> [m EXCEPT !.lru = IF \E i \in DOMAIN @ : @[i] = key
                                           THEN Append(without(@, key), key) ELSE @],
              result |-> SomeData(entry.data)]

\* the loop of purge_by_tag
RECURSIVE remove_all(_, _)
remove_all(m, keys) == IF keys = <<>> THEN m ELSE remove_all(remove(m, Head(keys)), Tail(keys))

\* CacheManager::purge_by_tag
purge_by_tag(m, tag) == remove_all([m EXCEPT !.tag_index[tag] = <<>>], m.tag_index[tag])

\* CacheManager::purge_all
purge_all(m) ==
    [m EXCEPT !.memory_cache = [k \in CacheKeys |-> NoEntry],
              !.tag_index = [t \in CacheTags |-> <<>>],
              !.lru = <<>>,
              !.size_bytes = 0]

\* the keys with an entry
Stored(m) == {k \in CacheKeys : m.memory_cache[k].stored}

CacheFrame == UNCHANGED <<wire, requestVars, config, handlerVars, workerVars, pool, callVars, ret, reply, sapiGlobals, captureVars>>

\* a call of set or set_with_ttl; the counter and the index lists stay in range
cache_store(f, key, data, tags, ttl) ==
    /\ cache.size_bytes + Len(data) <= MaxSizeBytes
    /\ \A t \in CacheTags : Len(cache.tag_index[t]) < MaxIndex
    /\ cache' = set_with_ttl(cache, key, data, tags, ttl)
    /\ applied' = [f |-> f, key |-> key, data |-> data,
                   evicted |-> Stored(cache) \ (Stored(cache') \cup {key})]
    /\ CacheFrame

\* CacheManager::set
cache_set(key, data, tags) ==
    /\ cache.now <= MaxTime
    /\ cache_store("set", key, data, tags, DefaultTtl)

cache_set_with_ttl(key, data, tags, ttl) ==
    /\ cache.now <= MaxTime
    /\ cache_store("set_with_ttl", key, data, tags, ttl)

cache_get(key) ==
    /\ cache.now <= MaxTime
    /\ cache' = CacheManager_get(cache, key).manager
    /\ applied' = [f |-> "get", key |-> key, result |-> CacheManager_get(cache, key).result]
    /\ CacheFrame

cache_remove(key) ==
    /\ cache.now <= MaxTime
    /\ cache' = remove(cache, key)
    /\ applied' = [f |-> "remove", key |-> key]
    /\ CacheFrame

cache_purge_by_tag(tag) ==
    /\ cache.now <= MaxTime
    /\ cache' = purge_by_tag(cache, tag)
    /\ applied' = [f |-> "purge_by_tag", tag |-> tag]
    /\ CacheFrame

cache_purge_all ==
    /\ cache.now <= MaxTime
    /\ cache' = purge_all(cache)
    /\ applied' = [f |-> "purge_all"]
    /\ CacheFrame

\* Instant::now moves on by a second
tick ==
    /\ cache.now < MaxTime
    /\ cache' = [cache EXCEPT !.now = @ + 1]
    /\ applied' = [f |-> "tick"]
    /\ CacheFrame

InitCache ==
    /\ config = [enable |-> TRUE, mode |-> "Socket", feature |-> FALSE]
    /\ pool = NewPool
    /\ \E enable \in BOOLEAN : InitProcessAnd("new", FALSE, "none", CacheManager_new(enable))
    /\ CAPTURE = DefaultCapture /\ SG = 0 /\ hooklog = <<>> /\ resp = NoResp /\ execs = 0
    /\ stale = DefaultCapture

NextCache ==
    \/ \E key \in CacheKeys, data \in CacheData, tags \in TagLists : cache_set(key, data, tags)
    \/ \E key \in CacheKeys, data \in CacheData, tags \in TagLists : cache_set_with_ttl(key, data, tags, 0)
    \/ \E key \in CacheKeys : cache_get(key)
    \/ \E key \in CacheKeys : cache_remove(key)
    \/ \E tag \in CacheTags : cache_purge_by_tag(tag)
    \/ cache_purge_all
    \/ tick

SpecCache == InitCache /\ [][NextCache]_vars


\* what get would return for a key
Cached(m, key) == CacheManager_get(m, key).result

\* C32: with caching enabled, get(k) after set(k, d) returns d, the data of
\* the most recent set, as long as the entry neither expires nor is evicted;
\* after remove(k), get(k) returns nothing until k is set again
C32_SetThenGet ==
    [][\A k \in CacheKeys :
         LET stores == applied'.f \in {"set", "set_with_ttl"}
         IN  /\ (cache.enable /\ stores /\ applied'.key = k) => Cached(cache', k) = SomeData(applied'.data)
             /\ (applied'.f = "remove" /\ applied'.key = k) => Cached(cache', k) = NoData
             /\ (applied'.f = "get" /\ applied'.key = k) =>
                    applied'.result = Cached(cache, k) /\ Cached(cache', k) = Cached(cache, k)
             /\ (applied'.f \in {"get", "remove"} /\ applied'.key # k) => Cached(cache', k) = Cached(cache, k)
             /\ (stores /\ applied'.key # k /\ k \notin applied'.evicted) => Cached(cache', k) = Cached(cache, k)
             /\ (Cached(cache, k) = NoData /\ ~(stores /\ applied'.key = k)) => Cached(cache', k) = NoData
      ]_vars

\* get returned the data of the second set of a key
C32_Witness ==
    /\ applied.f = "get" /\ applied.result = SomeData(<<2, 3>>)
    /\ cache.size_bytes > 2 /\ Cardinality(Stored(cache)) = 1

RECURSIVE StoredBytes(_, _)
StoredBytes(m, keys) ==
    IF keys = {} THEN 0
    ELSE LET k == CHOOSE x \in keys : TRUE
         IN  Len(m.memory_cache[k].data) + StoredBytes(m, keys \ {k})

\* C40: size_bytes is the sum of the data lengths of the entries stored,
\* after any sequence of set, set_with_ttl, remove, purge_by_tag, purge_all
\* and evictions, overwriting an existing key included
C40_SizeBytesIsTheSum == cache.size_bytes = StoredBytes(cache, Stored(cache))

\* size_bytes never falls below the bytes stored
SizeBytesCoversTheSum == cache.size_bytes >= StoredBytes(cache, Stored(cache))

HasTag(entry, tag) == entry.stored /\ \E i \in DOMAIN entry.tags : entry.tags[i] = tag

\* C33: purge_by_tag(t) removes every stored entry whose current tags
\* include t and no other entry, whatever sets and removes came before, a
\* key set again with different tags included
C33_PurgeByTagExact ==
    [][applied'.f = "purge_by_tag" =>
          \A k \in CacheKeys :
              cache'.memory_cache[k] =
                  IF HasTag(cache.memory_cache[k], applied'.tag) THEN NoEntry ELSE cache.memory_cache[k]
      ]_vars

\* purge_by_tag(t) leaves no entry tagged t, and changes no entry it keeps
PurgeByTagRemovesTagged ==
    [][applied'.f = "purge_by_tag" =>
          \A k \in CacheKeys :
              /\ ~HasTag(cache'.memory_cache[k], applied'.tag)
              /\ cache'.memory_cache[k] \in {NoEntry, cache.memory_cache[k]}
      ]_vars


\* the dedicated thread runs a script whose caller has given up waiting
Abandoned == thread.pc = "exec" /\ Listener(thread.cur.ch) = {}

\* C34: when the caller of an embedded execute_script times out while its
\* script runs, the dedicated thread still finishes the script; the reply
\* is thrown away without blocking or ending the thread and reaches no
\* other caller; and the thread goes on to take the next mailbox message
C34_AbandonedReplyDiscarded ==
    /\ [][Abandoned /\ thread' # thread =>
              /\ reply' = reply
              /\ thread'.pc = "recv"
              /\ mailbox' = mailbox]_vars
    /\ [](Abandoned => ENABLED thread_finish(TRUE))
    /\ [](thread.pc = "recv" /\ mailbox # <<>> => ENABLED thread_recv)

\* a caller has just timed out on the script the thread is running, and
\* another caller's message waits in the mailbox
C34_Witness ==
    /\ Abandoned
    /\ ret.c # 0 /\ ret.res.tag = "SapiTimeout"
    /\ mailbox # <<>>


(***************************************************************************)
(* The request context of an execution on the dedicated thread.            *)
(***************************************************************************)
MaxPost == 3
\* what a request brings: POST body, Cookie header, server variables
PostBodies == {<<>>, <<1>>, <<1, 2, 3>>}
Cookies == {NoCookie, [some |-> TRUE, text |-> <<"c">>]}
ContextServerVars == {{}, {<<"REQUEST_METHOD", "POST">>}}

Min(a, b) == IF a < b THEN a ELSE b

\* a read_post_hook that copies as much as it is asked for
read_post_hook_unclamped(ctx, count_bytes) ==
    IF count_bytes = 0 \/ ctx.cursor >= Len(ctx.body)
    THEN [ctx |-> ctx, copied |-> <<>>, ret |-> 0]
    ELSE [ctx |-> [ctx EXCEPT !.cursor = @ + count_bytes],
          copied |-> SubSeq(ctx.body, ctx.cursor + 1, Min(Len(ctx.body), ctx.cursor + count_bytes)),
          ret |-> count_bytes]

\* read_post_hook with a buffer of count_bytes bytes: the context
\* afterwards, the bytes copied into the buffer and the return value
read_post_hook(ctx, count_bytes) ==
    IF count_bytes = 0 \/ ctx.cursor >= Len(ctx.body)
    THEN [ctx |-> ctx, copied |-> <<>>, ret |-> 0]
    ELSE LET remaining == Len(ctx.body) - ctx.cursor
             to_copy == Min(remaining, count_bytes)
         IN  [ctx |-> [ctx EXCEPT !.cursor = @ + to_copy],
              copied |-> SubSeq(ctx.body, ctx.cursor + 1, ctx.cursor + to_copy),
              ret |-> to_copy]

\* read_cookies_hook: the cookie string, or null
read_cookies_hook(ctx) == ctx.cookie

ContextFrame ==
    UNCHANGED <<wire, cache, config, handlerVars, workerVars, pool, callVars, ret, reply,
                once, PHP_INITIALIZED, PHP_INIT_ERROR, mailbox, sapi, interp, taken,
                CAPTURE, SG, hooklog, resp, stale>>

\* execute_script_on_thread up to php_request_startup: an Err return for a
\* script path with a NUL, else the context is filled and the interpreter's
\* count of POST bytes read is reset
context_begin(pathok, post_data, cookie, server_vars) ==
    /\ thread.pc = "recv"
    /\ execs < MaxExecs
    /\ execs' = execs + 1
    /\ IF pathok
       THEN /\ REQUEST_CONTEXT' = [body |-> post_data, cursor |-> 0, cookie |-> cookie,
                                   server_vars |-> server_vars]
            /\ request_body' = <<>>
            /\ thread' = [thread EXCEPT !.pc = "startup"]
            /\ applied' = [f |-> "begin"]
       ELSE /\ applied' = [f |-> "execute", result |-> "InvalidPath"]
            /\ UNCHANGED <<REQUEST_CONTEXT, request_body, thread>>
    /\ ContextFrame

\* php_request_startup returns; when it fails execute_script_on_thread
\* returns the error at once
context_startup(ok) ==
    /\ thread.pc = "startup"
    /\ IF ok
       THEN /\ thread' = [thread EXCEPT !.pc = "script"]
            /\ applied' = [f |-> "startup"]
            /\ UNCHANGED request_body
       ELSE /\ thread' = [thread EXCEPT !.pc = "recv"]
            /\ applied' = [f |-> "execute", result |-> "StartupFailed"]
            /\ request_body' = <<>>
    /\ UNCHANGED <<REQUEST_CONTEXT, execs>>
    /\ ContextFrame

\* the interpreter reads POST data, while it starts the request or for the script
call_read_post(count_bytes) ==
    /\ thread.pc \in {"startup", "script"}
    /\ LET r == read_post_hook(REQUEST_CONTEXT, count_bytes)
       IN  /\ REQUEST_CONTEXT' = r.ctx
           /\ request_body' = request_body \o r.copied
           /\ applied' = [f |-> "read_post", count_bytes |-> count_bytes, copied |-> r.copied, ret |-> r.ret]
    /\ UNCHANGED <<thread, execs>>
    /\ ContextFrame

\* the interpreter asks for the cookies
call_read_cookies ==
    /\ thread.pc \in {"startup", "script"}
    /\ applied' = [f |-> "read_cookies", ret |-> read_cookies_hook(REQUEST_CONTEXT)]
    /\ UNCHANGED <<REQUEST_CONTEXT, request_body, thread, execs>>
    /\ ContextFrame

\* php_execute_script returns, the request is shut down and the context cleared
context_end(success) ==
    /\ thread.pc = "script"
    /\ REQUEST_CONTEXT' = RequestContext_default
    /\ request_body' = <<>>
    /\ thread' = [thread EXCEPT !.pc = "recv"]
    /\ applied' = [f |-> "execute", result |-> IF success THEN "Ok" ELSE "ScriptFailed"]
    /\ UNCHANGED execs
    /\ ContextFrame

InitContext == InitCapture

NextContext ==
    \/ \E pathok \in BOOLEAN, post_data \in PostBodies, cookie \in Cookies, server_vars \in ContextServerVars :
          context_begin(pathok, post_data, cookie, server_vars)
    \/ \E ok \in BOOLEAN : context_startup(ok)
    \/ \E count_bytes \in 0..(MaxPost + 1) : call_read_post(count_bytes)
    \/ call_read_cookies
    \/ \E success \in BOOLEAN : context_end(success)

SpecContext == InitContext /\ [][NextContext]_vars

\* C35: when an execution on the dedicated thread has ended, with success,
\* with a script failure or because php_request_startup failed, the request
\* context (POST body, cursor, cookie, server variables) is empty
C35_ContextEmptyAfterExecution ==
    thread.pc = "recv" => REQUEST_CONTEXT = RequestContext_default

\* the context is cleared when the execution ends after php_execute_script
ContextClearedAfterScript ==
    [][applied'.f = "execute" /\ applied'.result \in {"Ok", "ScriptFailed"}
           => REQUEST_CONTEXT' = RequestContext_default]_vars

\* C36: successive read_post calls of one execution return the bytes of the
\* request body in order, each once: a call returns min(requested,
\* remaining) bytes from the cursor on and advances the cursor by as much,
\* the cursor never exceeds the body's length, and a call at the end of
\* the body returns zero
C36_ReadPostInOrder ==
    /\ [][applied'.f = "read_post" /\ thread'.pc = thread.pc =>
              LET ctx == REQUEST_CONTEXT
                  n == Min(applied'.count_bytes, Len(ctx.body) - ctx.cursor)
              IN  /\ applied'.ret = n
                  /\ applied'.copied = SubSeq(ctx.body, ctx.cursor + 1, ctx.cursor + n)
                  /\ REQUEST_CONTEXT' = [ctx EXCEPT !.cursor = @ + n]
                  /\ ctx.cursor = Len(ctx.body) => applied'.ret = 0]_vars
    /\ [](/\ REQUEST_CONTEXT.cursor <= Len(REQUEST_CONTEXT.body)
          /\ thread.pc \in {"startup", "script"} =>
                 request_body = SubSeq(REQUEST_CONTEXT.body, 1, REQUEST_CONTEXT.cursor))

\* the interpreter has read a body of three bytes in two calls, the second
\* asking for more than was left
C36_Witness ==
    /\ applied.f = "read_post" /\ applied.count_bytes = 2 /\ applied.ret = 1
    /\ request_body = <<1, 2, 3>>


(***************************************************************************)
(* A caller that gives up: the future of an execute call is dropped.       *)
(***************************************************************************)
\* the future of a spawn-path call is dropped at one of its awaits (the
\* semaphore, the write of the body, the wait for the output), or that of
\* execute_embed at the semaphore: a permit it held goes back, nothing
\* after the await runs, and the interpreter process is left as it is
cancel(c) ==
    /\ pc[c] \in {"acquire", "write", "wait"}
    /\ pc' = [pc EXCEPT ![c] = "idle"]
    /\ call' = [call EXCEPT ![c] = NoCall]
    /\ pool' = IF pc[c] = "acquire" THEN pool ELSE [pool EXCEPT !.permits = DropPermit(@)]
    /\ Quiet
    /\ UNCHANGED <<fixed, child, seq, reply, sapiGlobals>>

\* a started pool in spawn mode
InitCancel ==
    /\ config = [enable |-> TRUE, mode |-> "Cgi", feature |-> FALSE]
    /\ pool = [NewPool EXCEPT !.pc = "started", !.available = TRUE, !.running = TRUE]
    /\ InitCommon

NextCancel ==
    \/ \E c \in Callers : execute_cgi(c)
    \/ \E c \in Callers : execute_with_body(c)
    \/ \E c \in Callers : execute_simple(c)
    \/ \E c \in Callers : acquire(c)
    \/ \E c \in Callers, ok \in BOOLEAN, reads \in BOOLEAN, body \in Bodies : spawn(c, ok, reads, body)
    \/ \E c \in Callers : write_done(c)
    \/ \E c \in Callers : write_fail(c)
    \/ \E c \in Callers, code \in {0, 1}, out \in Outputs, err \in Outputs : wait_output(c, code, out, err)
    \/ \E c \in Callers : wait_failed(c)
    \/ \E c \in Callers : timeout(c)
    \/ \E c \in Callers : child_exit(c)
    \/ \E c \in Callers : cancel(c)

SpecCancel == InitCancel /\ [][NextCancel]_vars

\* C37: the active_workers value that stats() reports is the number of
\* executions in flight, never more than max_workers, and 0 when no call
\* is in flight, for the spawn, socket and embedded strategies
C37_ActiveWorkersIsInFlight ==
    /\ pool.active_workers = Cardinality(InFlight)
    /\ pool.active_workers <= Workers
    /\ InFlight = {} => pool.active_workers = 0

\* without cancelled calls active_workers counts the spawn-path calls in flight
ActiveWorkersCountsSpawnCalls ==
    pool.active_workers = Cardinality({c \in InFlight : call[c].kind \in SpawnKinds})


\* initialize() returns Ok only after php_embed_init has succeeded on the thread
InitializeOkOnlyAfterInit ==
    \A s \in Sapis : sapi[s].ipc = "ok" => PHP_INITIALIZED /\ thread.pc \in {"recv", "exec"}

\* C38: PhpSapi::initialize returns Ok exactly when the interpreter
\* initialization on the dedicated thread succeeds; whatever the timing of
\* the thread and the fixed wait, it returns no failure (which leaves the
\* pool unavailable for good) for an initialization that is still under
\* way and succeeds later
C38_InitializeReportsThreadOutcome ==
    /\ InitializeOkOnlyAfterInit
    /\ \A s \in Sapis : sapi[s].ipc = "err" => PHP_INIT_ERROR /\ thread.pc = "exited"
    /\ (pool.pc = "started" /\ config.enable /\ config.mode = "Embed" /\ config.feature
            /\ ~pool.available) => PHP_INIT_ERROR


\* the connection threads whose script runs
Running == {t \in Conns : conn[t].pc = "run"}

\* C39: whenever the worker server decides where an Execute request goes,
\* every worker is idle, because the pool's lock is held for the whole of
\* WorkerPool::execute; so at most one script runs at a time whatever the
\* number of workers, and the queued and the pool-exhausted responses
\* are given only by a pool without any worker
C39_DispatchFindsAllIdle ==
    /\ [](wpool.lock = 0 => Busy = {})
    /\ [](Cardinality(Running) <= 1 /\ Cardinality(Busy) <= 1)
    /\ [][\A t \in Conns :
             /\ conn[t].pc = "lock" /\ conn'[t].pc # "lock" /\ conn[t].request.request_type = "Execute" =>
                    Busy = {} /\ Running = {}
             /\ (conn[t].pc = "lock" /\ conn'[t].pc = "send" /\ conn[t].request.request_type = "Execute"
                     /\ (conn'[t].response.queued \/ conn'[t].response.error = "Worker pool exhausted")) =>
                    wpool.workers = <<>>]_vars

\* a script runs on one of two workers while another Execute request waits for the lock
C39_Witness ==
    /\ Len(wpool.workers) = MaxWorkers
    /\ \E t, u \in Conns :
          /\ conn[t].pc = "run"
          /\ conn[u].pc = "lock" /\ conn[u].request.request_type = "Execute"

\* a pool without workers has queued a request
C39_WitnessQueued ==
    /\ wpool.workers = <<>>
    /\ \E t \in Conns : conn[t].pc = "send" /\ conn[t].response.queued

====
